---- MODULE Spec2Model ----
(***************************************************************************)
(* A model of streamingfast/wasm-runtime: the Memory View (segment and    *)
(* the readers built on it), the string codec, the Arena (AscHeap), the   *)
(* parameter conversion and the host imports.                             *)
(*                                                                         *)
(* Machine integers keep their Go width: int32 values are the integers of  *)
(* MinInt32..MaxInt32 and int32 arithmetic wraps (Add32).  Guest memory is *)
(* a zero-filled buffer of `size` bytes of which only the non-zero bytes   *)
(* are stored (`data`), so that memories of whole 64 KiB pages stay small. *)
(***************************************************************************)
EXTENDS Integers, Sequences, FiniteSets, TLC

VARIABLES
    memory,     \* the guest's linear memory (wasmer.Memory) of the instantiation
    heap,       \* the AscHeap of the call: arenaStartPtr, arenaFreeSize, allocator
    revision,   \* which AscHeap.Write is built: "runtime" (runtime.go) or "part002"
    fresh,      \* the heap as Execute built it, before any Write
    writes,     \* the successful Write calls so far, in order: [ptr, bytes]
    last,       \* the last operation applied, its inputs and its outcome
    shared,     \* whether the Execute calls are made on one Runtime and Environment
    envKind,    \* the Environment given to NewRuntime: "Default" or "Rust"
    envMemory,  \* per Environment, the call whose memory SetMemory bound (0: nil)
    recorder,   \* per Environment, the CallRecords of its CallRecorder, in order
    call        \* per Execute call: where it is, its instance, its heap, its outcome

codecVars == <<memory, heap, revision, fresh, writes, last>>
execVars == <<shared, envKind, envMemory, recorder, call>>
vars == <<codecVars, execVars>>

----------------------------------------------------------------------------
(* 32-bit integers *)

MaxInt32 == 2147483647
MinInt32 == -MaxInt32 - 1

\* a + b on int32 operands, wrapped to 32 bits as Go does
Add32(a, b) ==
    IF a >= 0 /\ b > MaxInt32 - a THEN (a + MinInt32) + (b + MinInt32)
    ELSE IF a < 0 /\ b < MinInt32 - a THEN (a - MinInt32) + (b - MinInt32)
    ELSE a + b

\* i * 2 on an int32 operand, wrapped
Mul32By2(a) == Add32(a, a)

\* the mathematical sum offset + length exceeds limit (limit >= 0), for any
\* two int32 operands
SumExceeds(offset, length, limit) ==
    IF offset >= 0 THEN length > limit - offset
    ELSE length > 0 /\ length + offset > limit

----------------------------------------------------------------------------
(* Guest memory *)

WasmPageSize == 65536

NewMemory(pages, image) == [size |-> pages * WasmPageSize, data |-> image]

ByteAt(m, a) == IF a \in DOMAIN m.data THEN m.data[a] ELSE 0

\* the bytes of m with the bytes bs stored from address a on
Store(m, a, bs) ==
    LET touched == a .. (a + Len(bs) - 1)
        value(x) == IF x \in touched THEN bs[x - a + 1] ELSE ByteAt(m, x)
        keep == {x \in (DOMAIN m.data) \cup touched : value(x) # 0}
    IN  [m EXCEPT !.data = [x \in keep |-> value(x)]]

\* bytes of a 32-bit word, little endian (encoding.PutUint32)
PutUint32(v) ==
    LET w == IF v >= 0 THEN v ELSE v - MinInt32
        top == (w \div 16777216) + (IF v >= 0 THEN 0 ELSE 128)
    IN  <<w % 256, (w \div 256) % 256, (w \div 65536) % 256, top>>

\* encoding.Uint32 of four bytes, as the int32 of the same bit pattern
Uint32(b) ==
    b[1] + 256 * b[2] + 65536 * b[3]
      + 16777216 * (IF b[4] >= 128 THEN b[4] - 256 ELSE b[4])

----------------------------------------------------------------------------
(* Memory View: DefaultEnvironment.segment and the readers *)

SegErr == [kind |-> "err", val |-> <<>>]
SegPanic == [kind |-> "panic", val |-> <<>>]

\* offset < 0, offset >= len(bytes), end > len(bytes) return an error; the
\* slice expression bytes[offset : offset+length] panics when its high bound
\* is below its low bound
segment(m, offset, length) ==
    IF offset < 0 THEN SegErr
    ELSE IF offset >= m.size THEN SegErr
    ELSE LET end == Add32(offset, length) IN
         IF end > m.size THEN SegErr
         ELSE IF end < offset THEN SegPanic
         ELSE [kind |-> "ok",
               val |-> [i \in 1..(end - offset) |-> ByteAt(m, offset + i - 1)]]

\* LogSegment reads a segment and logs it or the error; it returns nothing
LogSegment(m, offset, length) == segment(m, offset, length).kind

readI32(m, offset) ==
    LET s == segment(m, offset, 4) IN
    IF s.kind = "ok" THEN [kind |-> "ok", val |-> Uint32(s.val)]
    ELSE [kind |-> s.kind, val |-> 0]

----------------------------------------------------------------------------
(* Host strings and UTF-16.  A host string is the sequence of its code     *)
(* points (a valid UTF-8 Go string); len(h) is its length in UTF-8 bytes.  *)

utf8Len(r) == IF r < 128 THEN 1 ELSE IF r < 2048 THEN 2 ELSE IF r < 65536 THEN 3 ELSE 4

RECURSIVE len(_)
len(h) == IF h = <<>> THEN 0 ELSE utf8Len(Head(h)) + len(Tail(h))

\* unicode/utf16.Encode
RECURSIVE utf16Encode(_)
utf16Encode(runes) ==
    IF runes = <<>> THEN <<>>
    ELSE LET v == Head(runes)
             units == IF (0 <= v /\ v < 55296) \/ (57344 <= v /\ v < 65536) THEN <<v>>
                      ELSE IF 65536 <= v /\ v <= 1114111
                           THEN <<55296 + (((v - 65536) \div 1024) % 1024),
                                  56320 + ((v - 65536) % 1024)>>
                      ELSE <<65533>>
         IN  units \o utf16Encode(Tail(runes))

\* unicode/utf16.Decode
RECURSIVE utf16Decode(_)
utf16Decode(s) ==
    IF s = <<>> THEN <<>>
    ELSE LET r == Head(s) IN
         IF r < 55296 \/ 57344 <= r THEN <<r>> \o utf16Decode(Tail(s))
         ELSE IF r < 56320 /\ Len(s) >= 2 /\ 56320 <= s[2] /\ s[2] < 57344
              THEN <<(r - 55296) * 1024 + (s[2] - 56320) + 65536>>
                     \o utf16Decode(SubSeq(s, 3, Len(s)))
         ELSE <<65533>> \o utf16Decode(Tail(s))

StrErr == [kind |-> "err", val |-> <<>>]
StrPanic == [kind |-> "panic", val |-> <<>>]

\* the loop characters[i] = uint16(bytes[2i+1])<<8 | uint16(bytes[2i]) over
\* count characters, then string(utf16.Decode(characters)); make and the byte
\* indexing panic on a negative count and on a count past the bytes read
decodeCharacters(bytes, count) ==
    IF count < 0 THEN StrPanic
    ELSE IF count > Len(bytes) \div 2 THEN StrPanic
    ELSE [kind |-> "ok",
          val |-> utf16Decode([i \in 1..count |-> bytes[2 * i] * 256 + bytes[2 * i - 1]])]

\* DefaultEnvironment.ReadString: a 4-byte count of UTF-16 code units, then
\* count*2 bytes
ReadString(m, offset) ==
    IF LogSegment(m, Add32(offset, -12), 16) = "panic" THEN StrPanic
    ELSE LET characterCount == readI32(m, offset) IN
         IF characterCount.kind # "ok" THEN [kind |-> characterCount.kind, val |-> <<>>]
         ELSE LET bytes == segment(m, Add32(offset, 4), Mul32By2(characterCount.val)) IN
              IF bytes.kind # "ok" THEN [kind |-> bytes.kind, val |-> <<>>]
              ELSE decodeCharacters(bytes.val, characterCount.val)

\* RustEnvironment.ReadString: the segment of the explicit length, paired
\* into `length` UTF-16 code units
RustReadString(m, offset, length) ==
    IF LogSegment(m, Add32(offset, -12), 16) = "panic" THEN StrPanic
    ELSE LET bytes == segment(m, offset, length) IN
         IF bytes.kind # "ok" THEN [kind |-> bytes.kind, val |-> <<>>]
         ELSE decodeCharacters(bytes.val, length)

\* Environment.ReadString(offset, len) of the environment in use
EnvReadString(env, m, offset, length) ==
    IF env = "Rust" THEN RustReadString(m, offset, length) ELSE ReadString(m, offset)

\* readU32: the 4 bytes at offset, as the 32 bits they are
readU32(m, offset) == readI32(m, offset)

\* DefaultEnvironment.ReadBytes: an array header of three words (array
\* offset, data start, data size), then the segment
\* [arrayOffset+dataStart, +dataSize)
ReadBytes(m, offset) ==
    LET arrayOffset == readU32(m, offset)
        dataStart == readU32(m, Add32(offset, 4))
        dataSize == readU32(m, Add32(offset, 8))
    IN  IF arrayOffset.kind # "ok" THEN [kind |-> arrayOffset.kind, val |-> <<>>]
        ELSE IF dataStart.kind # "ok" THEN [kind |-> dataStart.kind, val |-> <<>>]
        ELSE IF dataSize.kind # "ok" THEN [kind |-> dataSize.kind, val |-> <<>>]
        ELSE IF LogSegment(m, offset, 32) = "panic" THEN SegPanic
        ELSE segment(m, Add32(arrayOffset.val, dataStart.val), dataSize.val)

\* the elements of an i32 array that lie inside the memory from indicesOffset
Fit(m, indicesOffset) ==
    IF indicesOffset < 0 \/ indicesOffset >= m.size THEN 0
    ELSE (m.size - indicesOffset) \div 4

\* DefaultEnvironment.ReadI32s: a header of two words (array offset, length),
\* then length elements of 4 bytes from arrayOffset+8; make([]int32, length)
\* panics on a negative length, and the first element that cannot be read
\* ends the loop with an error
ReadI32s(m, offset) ==
    LET arrayOffset == readI32(m, offset)
        length == readI32(m, Add32(offset, 4))
    IN  IF arrayOffset.kind # "ok" THEN [kind |-> arrayOffset.kind, val |-> <<>>]
        ELSE IF length.kind # "ok" THEN [kind |-> length.kind, val |-> <<>>]
        ELSE LET indicesOffset == Add32(arrayOffset.val, 8) IN
             IF length.val < 0 THEN SegPanic
             ELSE IF length.val > Fit(m, indicesOffset) THEN SegErr
             ELSE [kind |-> "ok",
                   val |-> [i \in 1..length.val |->
                              readI32(m, indicesOffset + 4 * (i - 1)).val]]

----------------------------------------------------------------------------
(* Arena: AscHeap and its Write, in the two revisions of the source.       *)
(* heap = [arenaStartPtr, arenaFreeSize, allocator]; part_002 names the    *)
(* first two nextPtrLocation and freeSpace.  allocator tells whether a     *)
(* guest allocator is bound (MemoryAllocationFactory configured).          *)

MIN_ARENA_SIZE == 10000

\* the heap Execute builds over a memory: the cursor at 0, all of the memory free
newAscHeap(m, withAllocator) ==
    [arenaStartPtr |-> 0, arenaFreeSize |-> m.size, allocator |-> withAllocator]

\* wasmer Memory.Grow / a guest allocator growing the memory by whole pages
Grow(m, pages) == [m EXCEPT !.size = @ + pages * WasmPageSize]

Min(a, b) == IF a <= b THEN a ELSE b

\* a write that leaves the cursor where it was
copyAndAdvance_CursorStays(h, m, bytes, start, free, grows, allocCalls, allocSize) ==
    LET size == Len(bytes) IN
    IF start < 0 \/ start > m.size
    THEN [kind |-> "panic", ptr |-> start, heap |-> h, mem |-> m, grew |-> grows,
          allocCalls |-> allocCalls, allocSize |-> allocSize, copied |-> 0]
    ELSE LET n == Min(size, m.size - start) IN
         [kind |-> "ok", ptr |-> start,
          heap |-> [h EXCEPT !.arenaFreeSize = free - size],
          mem |-> Store(m, start, SubSeq(bytes, 1, n)),
          grew |-> grows, allocCalls |-> allocCalls, allocSize |-> allocSize,
          copied |-> n]

\* ptr := start; copy(memoryData[ptr:], bytes); advance the cursor.  The slice
\* memoryData[ptr:] panics for ptr outside 0..len; copy copies
\* min(len(dst), len(src)) bytes
copyAndAdvance(h, m, bytes, start, free, grows, allocCalls, allocSize) ==
    LET size == Len(bytes) IN
    IF start < 0 \/ start > m.size
    THEN [kind |-> "panic", ptr |-> start, heap |-> h, mem |-> m, grew |-> grows,
          allocCalls |-> allocCalls, allocSize |-> allocSize, copied |-> 0]
    ELSE LET n == Min(size, m.size - start) IN
         [kind |-> "ok", ptr |-> start,
          heap |-> [h EXCEPT !.arenaStartPtr = Add32(start, size),
                             !.arenaFreeSize = free - size],
          mem |-> Store(m, start, SubSeq(bytes, 1, n)),
          grew |-> grows, allocCalls |-> allocCalls, allocSize |-> allocSize,
          copied |-> n]

\* a write that asks the allocator for the requested size only
Write_ExactSize(h, m, bytes, alloc) ==
    LET size == Len(bytes)
        grows == size > h.arenaFreeSize
    IN  IF ~grows THEN copyAndAdvance(h, m, bytes, h.arenaStartPtr, h.arenaFreeSize,
                                      FALSE, 0, 0)
        ELSE IF ~h.allocator
        THEN [kind |-> "panic", ptr |-> 0, heap |-> h, mem |-> m, grew |-> TRUE,
              allocCalls |-> 0, allocSize |-> 0, copied |-> 0]
        ELSE IF alloc.err
        THEN [kind |-> "panic", ptr |-> 0, heap |-> h, mem |-> m, grew |-> TRUE,
              allocCalls |-> 1, allocSize |-> size, copied |-> 0]
        ELSE copyAndAdvance(h, Grow(m, alloc.pages), bytes, alloc.ptr, size,
                            TRUE, 1, size)

\* a Write that takes memory.Data() before it calls the allocator, and
\* copies into that buffer after the memory has grown
staleBuffer(r, pages) == [r EXCEPT !.mem = Grow(@, pages)]
Write_StaleBuffer(h, m, bytes, alloc) ==
    LET size == Len(bytes)
        grows == size > h.arenaFreeSize
        newSize == IF size < MIN_ARENA_SIZE THEN MIN_ARENA_SIZE ELSE size
    IN  IF ~grows THEN copyAndAdvance(h, m, bytes, h.arenaStartPtr, h.arenaFreeSize,
                                      FALSE, 0, 0)
        ELSE IF ~h.allocator
        THEN [kind |-> "panic", ptr |-> 0, heap |-> h, mem |-> m, grew |-> TRUE,
              allocCalls |-> 0, allocSize |-> 0, copied |-> 0]
        ELSE IF alloc.err
        THEN [kind |-> "panic", ptr |-> 0, heap |-> h, mem |-> m, grew |-> TRUE,
              allocCalls |-> 1, allocSize |-> newSize, copied |-> 0]
        ELSE staleBuffer(copyAndAdvance(h, m, bytes, alloc.ptr, newSize, TRUE, 1, newSize),
                         alloc.pages)

\* AscHeap.Write of runtime.go.  alloc is what the guest allocator does when
\* called: [err, ptr, pages] (it fails, or returns ptr after growing the
\* memory by `pages` pages)
Write(h, m, bytes, alloc) ==
    LET size == Len(bytes)
        grows == size > h.arenaFreeSize
        newSize == IF size < MIN_ARENA_SIZE THEN MIN_ARENA_SIZE ELSE size
    IN  IF ~grows THEN copyAndAdvance(h, m, bytes, h.arenaStartPtr, h.arenaFreeSize,
                                      FALSE, 0, 0)
        ELSE IF ~h.allocator
        THEN [kind |-> "panic", ptr |-> 0, heap |-> h, mem |-> m, grew |-> TRUE,
              allocCalls |-> 0, allocSize |-> 0, copied |-> 0]
        ELSE IF alloc.err
        THEN [kind |-> "panic", ptr |-> 0, heap |-> h, mem |-> m, grew |-> TRUE,
              allocCalls |-> 1, allocSize |-> newSize, copied |-> 0]
        ELSE copyAndAdvance(h, Grow(m, alloc.pages), bytes, alloc.ptr, newSize,
                            TRUE, 1, newSize)

\* AscHeap.Write of part_002: grows the memory itself by size/WasmPageSize + 1
\* pages; grown tells whether Memory.Grow succeeds
WriteGrow(h, m, bytes, grown) ==
    LET size == Len(bytes)
        grows == size > h.arenaFreeSize
        numberOfPages == (size \div WasmPageSize) + 1
    IN  IF ~grows THEN copyAndAdvance(h, m, bytes, h.arenaStartPtr, h.arenaFreeSize,
                                      FALSE, 0, 0)
        ELSE IF ~grown
        THEN [kind |-> "panic", ptr |-> 0, heap |-> h, mem |-> m, grew |-> TRUE,
              allocCalls |-> 0, allocSize |-> 0, copied |-> 0]
        ELSE copyAndAdvance(h, Grow(m, numberOfPages), bytes, h.arenaStartPtr,
                            h.arenaFreeSize + WasmPageSize * numberOfPages,
                            TRUE, 0, 0)

\* the Write of the revision built
HeapWrite(rev, h, m, bytes, alloc, grown) ==
    IF rev = "runtime" THEN Write(h, m, bytes, alloc) ELSE WriteGrow(h, m, bytes, grown)

\* the block AscString.ToPtr builds (runtime.go): size = 4 + len(h)*2, the
\* count len(h) as a little-endian u32, then the UTF-16 code units of h, two
\* little-endian bytes each
AscStringBytes(h) ==
    LET size == 4 + len(h) * 2
        prefix == PutUint32(len(h))
        characters == utf16Encode(h)
        unitByte(k) == LET c == (k \div 2) + 1 IN
                       IF c > Len(characters) THEN 0
                       ELSE IF k % 2 = 0 THEN characters[c] % 256
                       ELSE characters[c] \div 256
    IN  [i \in 1..size |-> IF i <= 4 THEN prefix[i] ELSE unitByte(i - 5)]

\* the block AscBytes.ToPtr builds: the length as a little-endian u32, then the bytes
AscBytesBytes(h) == PutUint32(Len(h)) \o h

----------------------------------------------------------------------------
(* Parameter conversion.  A native value is [type, bits]: its Go type and, *)
(* for the integer, boolean and float types, its bytes little endian (two's *)
(* complement); for "bytes" the byte sequence and for "string" the string.  *)

extend(bits, n, fill) == [i \in 1..n |-> IF i <= Len(bits) THEN bits[i] ELSE fill]
signExtend(bits, n) == extend(bits, n, IF bits[Len(bits)] >= 128 THEN 255 ELSE 0)
zeroExtend(bits, n) == extend(bits, n, 0)

toWASMValue(in) ==
    CASE in.type = "bool" ->
           [type |-> "int32", bits |-> IF in.bits = <<1>> THEN PutUint32(1) ELSE PutUint32(0)]
      [] in.type \in {"int8", "int16", "int32"} ->
           [type |-> "int32", bits |-> signExtend(in.bits, 4)]
      [] in.type \in {"uint8", "uint16", "uint32"} ->
           [type |-> "int32", bits |-> zeroExtend(in.bits, 4)]
      [] in.type = "int64" -> [type |-> "int64", bits |-> in.bits]
      [] in.type = "uint64" -> [type |-> "uint64", bits |-> in.bits]
      [] in.type \in {"int", "uint"} -> [type |-> "int32", bits |-> SubSeq(in.bits, 1, 4)]
      [] in.type \in {"float32", "float64"} -> in
      [] in.type = "bytes" -> [type |-> "AscBytes", bits |-> in.bits]
      [] in.type = "string" -> [type |-> "AscString", bits |-> in.bits]
      [] OTHER -> [type |-> "panic", bits |-> <<>>]

\* whether a converted value implements AscPtr
IsAscPtr(w) == w.type \in {"AscBytes", "AscString"}

\* the block v.ToPtr(heap) writes for an AscPtr value
ToPtrBytes(w) == IF w.type = "AscString" THEN AscStringBytes(w.bits) ELSE AscBytesBytes(w.bits)

----------------------------------------------------------------------------
(* Parameter staging and result decoding of a call.                        *)

Nil == [type |-> "nil", bits |-> <<>>]
I32(v) == [type |-> "int32", bits |-> PutUint32(v)]

\* a staging that follows every parameter, scalar or not, by a size word
RECURSIVE toWASMParameters_SizeAlways(_, _, _, _, _)
toWASMParameters_SizeAlways(h, m, parameters, withSize, alloc) ==
    IF parameters = <<>>
    THEN [kind |-> "ok", heap |-> h, mem |-> m, out |-> <<>>, writes |-> 0,
          blocks |-> <<>>]
    ELSE LET wasmValue == toWASMValue(Head(parameters)) IN
         IF wasmValue.type = "panic"
         THEN [kind |-> "panic", heap |-> h, mem |-> m, out |-> <<>>, writes |-> 0,
               blocks |-> <<>>]
         ELSE IF IsAscPtr(wasmValue)
         THEN LET bytes == ToPtrBytes(wasmValue)
                  w == Write(h, m, bytes, alloc)
              IN  IF w.kind = "panic"
                  THEN [kind |-> "panic", heap |-> h, mem |-> m, out |-> <<>>, writes |-> 0,
                        blocks |-> <<>>]
                  ELSE LET rest == toWASMParameters_SizeAlways(w.heap, w.mem,
                                       Tail(parameters), withSize, alloc)
                           staged == IF withSize THEN <<I32(w.ptr), I32(Len(bytes))>>
                                     ELSE <<I32(w.ptr)>>
                       IN  [rest EXCEPT !.out = staged \o @, !.writes = @ + 1,
                                        !.blocks = <<[ptr |-> w.ptr, bytes |-> bytes]>> \o @]
         ELSE LET rest == toWASMParameters_SizeAlways(h, m, Tail(parameters), withSize, alloc)
                  these == IF withSize THEN <<wasmValue, I32(MaxInt32)>> ELSE <<wasmValue>>
              IN  [rest EXCEPT !.out = these \o @]

\* toWASMParameters: every parameter converted in order, an AscPtr staged
\* with ToPtr and, with withSize, followed by its size.  writes counts the
\* Arena writes made and blocks the blocks written, with their pointers
RECURSIVE toWASMParameters(_, _, _, _, _)
toWASMParameters(h, m, parameters, withSize, alloc) ==
    IF parameters = <<>>
    THEN [kind |-> "ok", heap |-> h, mem |-> m, out |-> <<>>, writes |-> 0,
          blocks |-> <<>>]
    ELSE LET wasmValue == toWASMValue(Head(parameters)) IN
         IF wasmValue.type = "panic"
         THEN [kind |-> "panic", heap |-> h, mem |-> m, out |-> <<>>, writes |-> 0,
               blocks |-> <<>>]
         ELSE IF IsAscPtr(wasmValue)
         THEN LET bytes == ToPtrBytes(wasmValue)
                  w == Write(h, m, bytes, alloc)
              IN  IF w.kind = "panic"
                  THEN [kind |-> "panic", heap |-> h, mem |-> m, out |-> <<>>, writes |-> 0,
                        blocks |-> <<>>]
                  ELSE LET rest == toWASMParameters(w.heap, w.mem, Tail(parameters),
                                                    withSize, alloc)
                           staged == IF withSize THEN <<I32(w.ptr), I32(Len(bytes))>>
                                     ELSE <<I32(w.ptr)>>
                       IN  [rest EXCEPT !.out = staged \o @, !.writes = @ + 1,
                                        !.blocks = <<[ptr |-> w.ptr, bytes |-> bytes]>> \o @]
         ELSE LET rest == toWASMParameters(h, m, Tail(parameters), withSize, alloc)
              IN  [rest EXCEPT !.out = <<wasmValue>> \o @]

\* []byte(h): the UTF-8 bytes of a host string
RECURSIVE utf8Bytes(_)
utf8Bytes(h) ==
    IF h = <<>> THEN <<>>
    ELSE LET r == Head(h)
             bs == IF r < 128 THEN <<r>>
                   ELSE IF r < 2048 THEN <<192 + (r \div 64), 128 + (r % 64)>>
                   ELSE IF r < 65536
                        THEN <<224 + (r \div 4096), 128 + ((r \div 64) % 64), 128 + (r % 64)>>
                   ELSE <<240 + (r \div 262144), 128 + ((r \div 4096) % 64),
                          128 + ((r \div 64) % 64), 128 + (r % 64)>>
         IN  bs \o utf8Bytes(Tail(h))

\* the block v.ToPtr(heap) writes in part_002: AscString writes the bytes of
\* the string, with no header; AscBytes is as in runtime.go
ToPtrBytes_part002(w) ==
    IF w.type = "AscString" THEN utf8Bytes(w.bits) ELSE AscBytesBytes(w.bits)

\* toWASMParameters of part_002 (the same loop, over part_002's ToPtr and Write)
RECURSIVE toWASMParameters_part002(_, _, _, _, _)
toWASMParameters_part002(h, m, parameters, withSize, grown) ==
    IF parameters = <<>>
    THEN [kind |-> "ok", heap |-> h, mem |-> m, out |-> <<>>, writes |-> 0,
          blocks |-> <<>>]
    ELSE LET wasmValue == toWASMValue(Head(parameters)) IN
         IF wasmValue.type = "panic"
         THEN [kind |-> "panic", heap |-> h, mem |-> m, out |-> <<>>, writes |-> 0,
               blocks |-> <<>>]
         ELSE IF IsAscPtr(wasmValue)
         THEN LET bytes == ToPtrBytes_part002(wasmValue)
                  w == WriteGrow(h, m, bytes, grown)
              IN  IF w.kind = "panic"
                  THEN [kind |-> "panic", heap |-> h, mem |-> m, out |-> <<>>, writes |-> 0,
                        blocks |-> <<>>]
                  ELSE LET rest == toWASMParameters_part002(w.heap, w.mem, Tail(parameters),
                                                            withSize, grown)
                           staged == IF withSize THEN <<I32(w.ptr), I32(Len(bytes))>>
                                     ELSE <<I32(w.ptr)>>
                       IN  [rest EXCEPT !.out = staged \o @, !.writes = @ + 1,
                                        !.blocks = <<[ptr |-> w.ptr, bytes |-> bytes]>> \o @]
         ELSE LET rest == toWASMParameters_part002(h, m, Tail(parameters), withSize, grown)
              IN  [rest EXCEPT !.out = <<wasmValue>> \o @]

\* the kinds of returns.Kind() that toGoValue passes through
IntegerKinds ==
    {"int", "int8", "int16", "int32", "int64", "uint", "uint8", "uint16", "uint32", "uint64"}

\* toGoValue of runtime.go: returns is the kind of the reflect.Type asked
\* for ("nil" for none, "bytes" for a slice of uint8, "slice" for any other
\* slice); m is the memory the Environment is bound to
toGoValue(wasmValue, returns, m) ==
    CASE returns = "nil" -> [kind |-> "ok", error |-> "", value |-> wasmValue]
      [] returns \in IntegerKinds -> [kind |-> "ok", error |-> "", value |-> wasmValue]
      [] returns = "bytes" ->
           IF wasmValue.type # "int32"
           THEN [kind |-> "panic", error |-> "interface conversion", value |-> Nil]
           ELSE LET out == ReadBytes(m, Uint32(wasmValue.bits)) IN
                IF out.kind = "ok"
                THEN [kind |-> "ok", error |-> "", value |-> [type |-> "bytes", bits |-> out.val]]
                ELSE [kind |-> out.kind, error |-> "read bytes", value |-> Nil]
      [] returns = "slice" ->
           [kind |-> "err", error |-> "unhandled return kind slice", value |-> Nil]
      [] returns = "string" ->
           IF wasmValue.type # "int32"
           THEN [kind |-> "panic", error |-> "interface conversion", value |-> Nil]
           ELSE LET out == ReadString(m, Uint32(wasmValue.bits)) IN
                IF out.kind = "ok"
                THEN [kind |-> "ok", error |-> "", value |-> [type |-> "string", bits |-> out.val]]
                ELSE [kind |-> out.kind, error |-> "read string", value |-> Nil]
      [] OTHER -> [kind |-> "err", error |-> "unhandled return kind", value |-> Nil]

\* toGoValue of part_002: the value of the engine call, whatever the type
\* asked for (the decoding is commented out)
toGoValue_part002(wasmValue, returns, m) ==
    [kind |-> "ok", error |-> "", value |-> wasmValue]

\* whether staging the parameters calls the allocator
RECURSIVE Grows(_, _)
Grows(free, parameters) ==
    IF parameters = <<>> THEN FALSE
    ELSE LET w == toWASMValue(Head(parameters)) IN
         IF w.type = "panic" THEN FALSE
         ELSE IF ~IsAscPtr(w) THEN Grows(free, Tail(parameters))
         ELSE Len(ToPtrBytes(w)) > free \/ Grows(free - Len(ToPtrBytes(w)), Tail(parameters))


----------------------------------------------------------------------------
(* The host imports of intrinsics.go, as functions of the Environment in   *)
(* use, the memory it is bound to and the arguments.  An import returns    *)
(* [kind, error, records]: kind "ok", "err" (a plain error), "abort" (an   *)
(* abortError) or "panic"; records are the CallRecords it hands to         *)
(* RecordCall.                                                             *)

NoAbort == [message |-> <<>>, filename |-> <<>>, lineNumber |-> 0, columnNumber |-> 0]
ImportFailed(kind, error) ==
    [kind |-> kind, error |-> error, abort |-> NoAbort, records |-> <<>>,
     values |-> <<>>, read |-> TRUE]

\* env.abort(message, filename, line, column)
envAbort(env, m, args) ==
    LET message == EnvReadString(env, m, args[1], 0) IN
    IF message.kind # "ok" THEN ImportFailed(message.kind, "read message argument")
    ELSE LET filename == EnvReadString(env, m, args[2], 0) IN
         IF filename.kind # "ok" THEN ImportFailed(filename.kind, "read filename argument")
         ELSE [kind |-> "abort", error |-> "abort",
               abort |-> [message |-> message.val, filename |-> filename.val,
                          lineNumber |-> args[3], columnNumber |-> args[4]],
               records |-> <<>>, values |-> <<>>, read |-> TRUE]

\* index.log.log(level, message)
indexLogLog(env, m, args) ==
    LET level == args[1]
        message == EnvReadString(env, m, args[2], 0)
    IN  IF message.kind # "ok" THEN ImportFailed(message.kind, "read message argument")
        ELSE [kind |-> "ok", error |-> "", abort |-> NoAbort,
              records |-> <<[module |-> "index", function |-> "log.log",
                             params |-> <<level, message.val>>, returns |-> "nil"]>>,
              values |-> <<>>, read |-> TRUE]

\* env.println(message, length)
envPrintln(env, m, args) ==
    LET message == EnvReadString(env, m, args[1], args[2]) IN
    IF message.kind # "ok" THEN ImportFailed(message.kind, "read message argument")
    ELSE [kind |-> "ok", error |-> "", abort |-> NoAbort, records |-> <<>>,
          values |-> <<>>, read |-> TRUE]

\* the imports registered the old way: a function of the arguments alone,
\* that returns the fixed values
OldWay(values) ==
    [kind |-> "ok", error |-> "", abort |-> NoAbort, records |-> <<>>,
     values |-> values, read |-> FALSE]

\* a bytesToHex that returns its placeholder without reading its argument
indexTypeConversionBytesToHex_Stub(env, m, args) == OldWay(<<0>>)

\* index.typeConversion.bytesToHex(bytes): the argument is decoded with
\* ReadBytes and dropped; the result is the i32 0
indexTypeConversionBytesToHex(env, m, args) ==
    LET bytes == ReadBytes(m, args[1]) IN
    IF bytes.kind # "ok" THEN ImportFailed(bytes.kind, "read messages argument")
    ELSE [kind |-> "ok", error |-> "", abort |-> NoAbort, records |-> <<>>,
          values |-> <<0>>, read |-> TRUE]

\* the import table: the function registered under module/name
functions(name, env, m, args) ==
    CASE name = "env.abort" -> envAbort(env, m, args)
      [] name = "index.log.log" -> indexLogLog(env, m, args)
      [] name = "env.println" -> envPrintln(env, m, args)
      [] name = "index.typeConversion.bytesToHex" -> indexTypeConversionBytesToHex(env, m, args)
      [] name = "index.bigDecimal.fromString" -> OldWay(<<0>>)
      [] name = "index.typeConversion.stringToH160" -> OldWay(<<0>>)
      [] name = "index.store.get" -> OldWay(<<0>>)
      [] name = "index.store.set" -> OldWay(<<>>)
      [] name = "index.ethereum.call" -> OldWay(<<0>>)
      [] name = "index.typeConversion.bytesToString" -> OldWay(<<0>>)
      [] name = "index.dataSource.create" -> OldWay(<<>>)

\* the imports of the table `functions`, registered with the Environment;
\* the others are registered the old way, in the namespace of "index"
NewFormat == {"env.abort", "index.typeConversion.bytesToHex", "index.log.log", "env.println"}
Imports ==
    NewFormat \cup {"index.bigDecimal.fromString", "index.typeConversion.stringToH160",
                    "index.store.get", "index.store.set", "index.ethereum.call",
                    "index.typeConversion.bytesToString", "index.dataSource.create"}

\* valueSet(s).String(): the kind and the decimal digits of each value
RECURSIVE digits(_)
digits(n) == IF n < 10 THEN <<n>> ELSE Append(digits(n \div 10), n % 10)
valueString(v) ==
    [kind |-> "i32", negative |-> v < 0,
     text |-> IF v = MinInt32 THEN <<2, 1, 4, 7, 4, 8, 3, 6, 4, 8>>
              ELSE digits(IF v < 0 THEN -v ELSE v)]
valueSetString(s) == [i \in 1..Len(s) |-> valueString(s[i])]

\* the two lines the wrapper logs around a call: the arguments before it,
\* the values and the error it returned after it
logging(name, args, out) ==
    [result |-> out,
     logged |-> <<[line |-> "invoking", name |-> name, values |-> valueSetString(args)],
                  [line |-> "terminated", name |-> name,
                   values |-> valueSetString(out.values), error |-> out.error]>>]

\* the function newImports registers for an import of the table: with
\* tracing enabled, a function that logs the arguments, calls impl.function,
\* and logs what it returned from a deferred call; the values and the error
\* are those of impl.function
\* a wrapper that logs the error and returns none
traced_DropsError(name, env, m, args) ==
    logging(name, args, [functions(name, env, m, args) EXCEPT !.kind = "ok", !.error = ""])
traced(name, env, m, args) == logging(name, args, functions(name, env, m, args))

\* the function registered under a name by newImports, tracing enabled or not
registered(name, env, m, args, tracing) ==
    IF tracing /\ name \in NewFormat THEN traced(name, env, m, args)
    ELSE [result |-> functions(name, env, m, args), logged |-> <<>>]

\* AscReturnValue.ToPtr (part_002): a block of 8 zero bytes
ReturnSlotBytes == <<0, 0, 0, 0, 0, 0, 0, 0>>

\* callFunction (part_002), after toWASMParameters: for each return slot, in
\* order, ToPtr writes its block to the heap and the pointer is appended
RECURSIVE returnSlots(_, _, _, _)
slotsAfter(ptr, rest) == [rest EXCEPT !.ptrs = <<ptr>> \o @]
slotWritten(w, k, grown) ==
    IF w.kind = "panic" THEN [kind |-> "panic", heap |-> w.heap, mem |-> w.mem, ptrs |-> <<>>]
    ELSE slotsAfter(w.ptr, returnSlots(w.heap, w.mem, k - 1, grown))
returnSlots(h, m, k, grown) ==
    IF k = 0 THEN [kind |-> "ok", heap |-> h, mem |-> m, ptrs |-> <<>>]
    ELSE slotWritten(WriteGrow(h, m, ReturnSlotBytes, grown), k, grown)

\* the WebAssembly arguments of the entry function: the converted
\* parameters r, then the pointers s of the return slots
wasmParameters(r, s) ==
    IF s.kind = "panic"
    THEN [kind |-> "panic", heap |-> s.heap, mem |-> s.mem, out |-> <<>>, blocks |-> <<>>,
          ptrs |-> <<>>]
    ELSE [kind |-> "ok", heap |-> s.heap, mem |-> s.mem,
          out |-> r.out \o [i \in 1..Len(s.ptrs) |-> I32(s.ptrs[i])],
          blocks |-> r.blocks, ptrs |-> s.ptrs]
withReturns(r, k, grown) ==
    IF r.kind = "panic"
    THEN [kind |-> "panic", heap |-> r.heap, mem |-> r.mem, out |-> <<>>, blocks |-> <<>>,
          ptrs |-> <<>>]
    ELSE wasmParameters(r, returnSlots(r.heap, r.mem, k, grown))

\* callFunction (part_002) up to entrypoint.Call: the parameters converted,
\* then one pointer per return slot
callFunction(h, m, parameters, k, withSize, grown) ==
    withReturns(toWASMParameters_part002(h, m, parameters, withSize, grown), k, grown)

\* AscReturnValue.ReadData(env) (part_002) through the memory m the
\* Environment holds: the pointer and the length are read at v.ptr and
\* v.ptr + 4, then ReadBytes(ptr, length), the segment of part_000
ReadData(m, vptr) ==
    LET ptr == readI32(m, vptr) IN
    IF ptr.kind # "ok" THEN [kind |-> ptr.kind, val |-> <<>>]
    ELSE LET length == readI32(m, Add32(vptr, 4)) IN
         IF length.kind # "ok" THEN [kind |-> length.kind, val |-> <<>>]
         ELSE segment(m, ptr.val, length.val)

\* the guest's entry function stores a pointer and a length in each return
\* slot it was handed; a store outside the memory traps
RECURSIVE guestStores(_, _, _)
guestStores(m, ptrs, answers) ==
    IF ptrs = <<>> THEN [kind |-> "ok", mem |-> m]
    ELSE IF Head(ptrs) < 0 \/ Head(ptrs) + 8 > m.size THEN [kind |-> "err", mem |-> m]
    ELSE guestStores(Store(m, Head(ptrs),
                           PutUint32(Head(answers)[1]) \o PutUint32(Head(answers)[2])),
                     Tail(ptrs), Tail(answers))


\* the number of i32 parameters an import is declared with
Arity(name) ==
    CASE name = "env.abort" -> 4
      [] name \in {"index.store.set"} -> 3
      [] name \in {"index.log.log", "env.println", "index.store.get",
                   "index.dataSource.create"} -> 2
      [] OTHER -> 1

----------------------------------------------------------------------------
(* The codec and the arena of one instantiation: the operations applied    *)
(* one at a time to a guest memory, from inputs drawn from small sets.     *)

MaxPages == 1      \* the instantiated memory has 0..MaxPages pages
MaxWrites == 2     \* Arena writes per call
MaxParams == 2     \* parameters of a call

\* a guest memory image: "Hi" at 16, a count of -1 at 32, of 2^30 at 48,
\* "\u00e9" at 64, a count of MinInt32 at 80, the header of the byte array
\* 9 8 7 at 96 (data at 4), byte array headers with a size of -1 at 128 and
\* of 2^30 at 144, the header of the i32 array 5 -6 at 160 (elements at 8),
\* an i32 array header with a length of -1 at 200, a byte array header
\* whose buffer offset is 2^32 - 1 at 216, and a count of 1 in the last four
\* bytes of the first page
TestImage ==
    LET m0 == NewMemory(1, <<>>)
        m1 == Store(m0, 16, PutUint32(2) \o <<72, 0, 105, 0>>)
        m2 == Store(m1, 32, PutUint32(-1))
        m3 == Store(m2, 48, PutUint32(1073741824))
        m4 == Store(m3, 64, PutUint32(1) \o <<233, 0>>)
        m5 == Store(m4, 80, PutUint32(MinInt32))
        m6 == Store(m5, WasmPageSize - 4, PutUint32(1))
        m7 == Store(m6, 96, PutUint32(3) \o PutUint32(1) \o PutUint32(3))
        m8 == Store(m7, 4, <<9, 8, 7>>)
        m9 == Store(m8, 128, PutUint32(3) \o PutUint32(1) \o PutUint32(-1))
        m10 == Store(m9, 144, PutUint32(3) \o PutUint32(1) \o PutUint32(1073741824))
        m11 == Store(m10, 160, PutUint32(0) \o PutUint32(2))
        m12 == Store(m11, 8, PutUint32(5) \o PutUint32(-6))
        m13 == Store(m12, 200, PutUint32(0) \o PutUint32(-1))
        m14 == Store(m13, 216, PutUint32(-1) \o PutUint32(5) \o PutUint32(3))
    IN  m14.data

Offsets ==
    {MinInt32, -1, 0, 16, 32, 48, 64, 80, 96, 128, 144, 160, 200, 216,
     WasmPageSize - 4, WasmPageSize, MaxInt32}
Lengths == {MinInt32, -1, 0, 2, 4, 5, MaxInt32}
ByteStrings == {<<>>, <<7>>, <<1, 2, 3>>}
\* a block of one byte more than a page: 1, zeros, 2
PageAndOne ==
    [i \in 1..(WasmPageSize + 1) |-> IF i = 1 THEN 1 ELSE IF i = WasmPageSize + 1 THEN 2 ELSE 0]
\* the blocks a call may write: a block larger than a page is written first,
\* and alone
BlocksToWrite == ByteStrings \cup (IF last.op = "none" THEN {PageAndOne} ELSE {})
\* the arguments a guest passes to an import: pointers to "Hi", to a count
\* of -1, to a byte array header, to a header with a size of -1, and past
\* the end of the memory; a line and a column for env.abort
ImportOffsets == {16, 32, 96, 128, WasmPageSize}
\* the byte lengths a Rust guest passes to env.println
ImportLengths == {0, 4}
ImportArgs(name) ==
    {t \in [1..Arity(name) -> ImportOffsets \cup ImportLengths] :
        /\ t[1] \in ImportOffsets
        /\ name = "env.abort" => (t[2] \in ImportOffsets /\ t[3] = 16 /\ t[4] = 32)
        /\ name = "env.println" => t[2] \in ImportLengths
        /\ name \notin {"env.abort", "env.println"} =>
              \A i \in 1..Arity(name) : t[i] \in ImportOffsets}
\* the result kinds a caller asks for
ReturnKinds == {"nil", "int32", "float64", "bytes", "slice", "string"}
\* "", "A", "Hi", "\u00e9", "\u20acA", U+1F600
Strings == {<<>>, <<65>>, <<72, 105>>, <<233>>, <<8364, 65>>, <<128512>>}

Natives ==
    {[type |-> "bool", bits |-> <<0>>], [type |-> "bool", bits |-> <<1>>],
     [type |-> "int8", bits |-> <<255>>], [type |-> "uint8", bits |-> <<200>>],
     [type |-> "int16", bits |-> <<254, 255>>], [type |-> "uint16", bits |-> <<255, 255>>],
     [type |-> "int32", bits |-> <<246, 255, 255, 255>>],
     [type |-> "uint32", bits |-> <<255, 255, 255, 255>>],
     [type |-> "int64", bits |-> <<246, 255, 255, 255, 255, 255, 255, 255>>],
     [type |-> "uint64", bits |-> <<10, 0, 0, 0, 0, 0, 0, 128>>],
     [type |-> "int", bits |-> <<1, 0, 0, 0, 1, 0, 0, 0>>],
     [type |-> "uint", bits |-> <<2, 0, 0, 0, 0, 0, 0, 0>>],
     [type |-> "float32", bits |-> <<0, 0, 128, 63>>],
     [type |-> "float64", bits |-> <<0, 0, 0, 0, 0, 0, 240, 63>>],
     [type |-> "bytes", bits |-> <<250, 233, 241>>],
     [type |-> "string", bits |-> <<72, 105>>],
     [type |-> "string", bits |-> <<233>>],
     [type |-> "struct", bits |-> <<>>]}

\* the parameter lists of a call: up to MaxParams of a 32-bit integer, a
\* float, a string and a byte sequence
ParameterValues ==
    {[type |-> "int32", bits |-> <<246, 255, 255, 255>>],
     [type |-> "float64", bits |-> <<0, 0, 0, 0, 0, 0, 240, 63>>],
     [type |-> "string", bits |-> <<72, 105>>],
     [type |-> "bytes", bits |-> <<250, 233, 241>>]}
ParameterLists == UNION {[1..n -> ParameterValues] : n \in 0..MaxParams}

\* what a guest allocator may do when called on memory m
AllocOutcomes(m) ==
    {[err |-> TRUE, ptr |-> 0, pages |-> 0]}
      \cup UNION {{[err |-> FALSE, ptr |-> p, pages |-> g] :
                      p \in {-1, 0, 1024, Grow(m, g).size - 2, Grow(m, g).size + 1}} :
                    g \in {0, 1}}

Init ==
    /\ revision \in {"runtime", "part002"}
    /\ \E pages \in 0..MaxPages :
         \E image \in (IF pages = 0 THEN {<<>>} ELSE {<<>>, TestImage}) :
           memory = NewMemory(pages, image)
    /\ \E withAllocator \in BOOLEAN : heap = newAscHeap(memory, withAllocator)
    /\ fresh = heap
    /\ writes = <<>>
    /\ last = [op |-> "none", kind |-> "ok"]
    /\ shared = FALSE /\ envKind = "Default"
    /\ envMemory = <<>> /\ recorder = <<>> /\ call = <<>>

\* a panic unwinds the call: nothing more is applied.  An operation that
\* changes nothing (a read, a decoding, the conversion of a scalar) is taken
\* as the last one: what could follow it follows the state it was made in.
\* The staging of a whole parameter list is followed by the guest call, not
\* by further writes; a block larger than a page is the only block of its call
Running ==
    /\ last.kind # "panic"
    /\ last.op \notin {"segment", "ReadString", "ReadBytes", "ReadI32s", "toGoValue",
                      "ConvertAll", "import", "callFunction", "ReadData"}
    /\ ~(last.op = "Convert" /\ ~last.staged)
    /\ ~(last.op = "Write" /\ Len(last.bytes) > WasmPageSize)

\* no operation has been applied to the instantiation yet
Untouched == last.op = "none"

\* heap.Write(bytes)
ArenaWrite(bytes, alloc, grown) ==
    /\ Running
    /\ Len(writes) < MaxWrites
    /\ LET r == HeapWrite(revision, heap, memory, bytes, alloc, grown) IN
       /\ memory' = r.mem
       /\ heap' = r.heap
       /\ writes' = IF r.kind = "ok" THEN Append(writes, [ptr |-> r.ptr, bytes |-> bytes])
                    ELSE writes
       /\ last' = [op |-> "Write", kind |-> r.kind, bytes |-> bytes, ptr |-> r.ptr,
                   grew |-> r.grew, allocCalls |-> r.allocCalls,
                   allocSize |-> r.allocSize, allocPtr |-> alloc.ptr,
                   grown |-> grown, copied |-> r.copied, before |-> memory]
    /\ UNCHANGED <<revision, fresh>>
    /\ UNCHANGED execVars

\* env.segment(offset, length), on the memory as instantiated
Segment(offset, length) ==
    /\ Running
    /\ Untouched
    /\ LET r == segment(memory, offset, length) IN
       last' = [op |-> "segment", kind |-> r.kind, offset |-> offset,
                length |-> length, val |-> r.val, before |-> memory]
    /\ UNCHANGED <<memory, heap, revision, fresh, writes>>
    /\ UNCHANGED execVars

\* env.ReadString(offset) of the DefaultEnvironment, on the memory as instantiated
ReadStringAt(offset) ==
    /\ Running
    /\ Untouched
    /\ LET r == ReadString(memory, offset) IN
       last' = [op |-> "ReadString", kind |-> r.kind, offset |-> offset, val |-> r.val]
    /\ UNCHANGED <<memory, heap, revision, fresh, writes>>
    /\ UNCHANGED execVars

\* the guest calls an import on the memory as instantiated
\* what a call of an import leaves to observe: the values and the error it
\* returned, the lines it logged, and the memory it was called on
Called(name, env, args, tracing, r, m) ==
    [op |-> "import", kind |-> r.result.kind, name |-> name, env |-> env,
     args |-> args, tracing |-> tracing, result |-> r.result,
     logged |-> r.logged, before |-> m]
CallImport(name, env, args, tracing) ==
    /\ Running
    /\ Untouched
    /\ revision = "runtime" /\ ~heap.allocator
    /\ last' = Called(name, env, args, tracing, registered(name, env, memory, args, tracing),
                      memory)
    /\ UNCHANGED <<memory, heap, revision, fresh, writes>>
    /\ UNCHANGED execVars

\* env.ReadBytes(offset), on the memory as instantiated
ReadBytesAt(offset) ==
    /\ Running
    /\ Untouched
    /\ LET r == ReadBytes(memory, offset) IN
       last' = [op |-> "ReadBytes", kind |-> r.kind, offset |-> offset, val |-> r.val]
    /\ UNCHANGED <<memory, heap, revision, fresh, writes>>
    /\ UNCHANGED execVars

\* env.ReadI32s(offset), on the memory as instantiated
ReadI32sAt(offset) ==
    /\ Running
    /\ Untouched
    /\ LET r == ReadI32s(memory, offset) IN
       last' = [op |-> "ReadI32s", kind |-> r.kind, offset |-> offset, val |-> r.val]
    /\ UNCHANGED <<memory, heap, revision, fresh, writes>>
    /\ UNCHANGED execVars

\* toGoValue(result, returns, r.env) of the revision, for a guest that
\* returned the pointer offset
DecodeResult(returns, offset) ==
    /\ Running
    /\ Untouched
    /\ LET wasmValue == I32(offset)
           r == IF revision = "runtime" THEN toGoValue(wasmValue, returns, memory)
                ELSE toGoValue_part002(wasmValue, returns, memory)
       IN  last' = [op |-> "toGoValue", kind |-> r.kind, returns |-> returns,
                    wasmValue |-> wasmValue, value |-> r.value]
    /\ UNCHANGED <<memory, heap, revision, fresh, writes>>
    /\ UNCHANGED execVars

\* ptr, size := AscString(S).ToPtr(heap), then env.ReadString(ptr)
StageString(S, alloc) ==
    /\ Running
    /\ revision = "runtime"
    /\ Len(writes) < MaxWrites
    /\ LET bytes == AscStringBytes(S)
           r == Write(heap, memory, bytes, alloc)
       IN
       /\ memory' = r.mem
       /\ heap' = r.heap
       /\ writes' = IF r.kind = "ok" THEN Append(writes, [ptr |-> r.ptr, bytes |-> bytes])
                    ELSE writes
       /\ last' = [op |-> "StageString", kind |-> r.kind, S |-> S, ptr |-> r.ptr,
                   size |-> Len(bytes), copied |-> r.copied,
                   decoded |-> IF r.kind = "ok" THEN ReadString(r.mem, r.ptr) ELSE StrErr]
    /\ UNCHANGED <<revision, fresh>>
    /\ UNCHANGED execVars

\* one round of the loop of toWASMParameters: toWASMValue(parameter), then
\* ToPtr(heap) for an AscPtr
Convert(parameter, alloc) ==
    /\ Running
    /\ revision = "runtime"
    /\ Len(writes) < MaxWrites
    /\ LET w == toWASMValue(parameter) IN
       IF w.type = "panic"
       THEN /\ last' = [op |-> "Convert", kind |-> "panic", parameter |-> parameter]
            /\ UNCHANGED <<memory, heap, writes>>
       ELSE IF IsAscPtr(w)
       THEN LET bytes == ToPtrBytes(w)
                r == Write(heap, memory, bytes, alloc)
            IN
            /\ memory' = r.mem
            /\ heap' = r.heap
            /\ writes' = IF r.kind = "ok"
                         THEN Append(writes, [ptr |-> r.ptr, bytes |-> bytes])
                         ELSE writes
            /\ last' = [op |-> "Convert", kind |-> r.kind, parameter |-> parameter,
                        wasmValue |-> [type |-> "int32", bits |-> PutUint32(r.ptr)],
                        staged |-> TRUE, size |-> Len(bytes), copied |-> r.copied]
       ELSE /\ last' = [op |-> "Convert", kind |-> "ok", parameter |-> parameter,
                        wasmValue |-> w, staged |-> FALSE, size |-> MaxInt32, copied |-> 0]
            /\ UNCHANGED <<memory, heap, writes>>
    /\ UNCHANGED <<revision, fresh>>
    /\ UNCHANGED execVars

\* toWASMParameters(heap, parameters, withSize) on a fresh heap
ConvertAll(parameters, withSize, alloc, grown) ==
    /\ Running
    /\ Untouched
    /\ LET r == IF revision = "runtime"
                THEN toWASMParameters(heap, memory, parameters, withSize, alloc)
                ELSE toWASMParameters_part002(heap, memory, parameters, withSize, grown)
       IN
       /\ memory' = r.mem
       /\ heap' = r.heap
       /\ writes' = r.blocks
       /\ last' = [op |-> "ConvertAll", kind |-> r.kind, parameters |-> parameters,
                   withSize |-> withSize, out |-> r.out, blocks |-> r.blocks]
    /\ UNCHANGED <<revision, fresh>>
    /\ UNCHANGED execVars

\* the allocator and Memory.Grow are consulted only by a staging that grows
AllocForAll(parameters) ==
    IF revision = "runtime" /\ Grows(heap.arenaFreeSize, parameters)
    THEN AllocOutcomes(memory) ELSE {[err |-> TRUE, ptr |-> 0, pages |-> 0]}
GrownForAll(parameters) ==
    IF revision = "part002" /\ Grows(heap.arenaFreeSize, parameters) THEN BOOLEAN ELSE {FALSE}

\* the allocator and Memory.Grow are consulted only by a write that grows
AllocFor(bytes) ==
    IF revision = "runtime" /\ Len(bytes) > heap.arenaFreeSize
    THEN AllocOutcomes(memory) ELSE {[err |-> TRUE, ptr |-> 0, pages |-> 0]}
GrownFor(bytes) ==
    IF revision = "part002" /\ Len(bytes) > heap.arenaFreeSize THEN BOOLEAN ELSE {FALSE}

\* the return slots a call passes, and what a guest stores in one: the
\* 8 bytes at 16, nothing, a range that ends past the memory, a length of -1
MaxSlots == 2
GuestAnswers == {<<16, 8>>, <<0, 0>>, <<WasmPageSize - 4, 8>>, <<16, -1>>}
\* the parameters of a call with return slots: none, a string, an int32 and
\* a byte array
SlotParameters ==
    {<<>>, <<[type |-> "string", bits |-> <<72, 105>>]>>,
     <<[type |-> "int32", bits |-> <<246, 255, 255, 255>>],
       [type |-> "bytes", bits |-> <<250, 233, 241>>]>>}

\* whether memory.Grow succeeds: it is asked only when the arena is smaller
\* than what a call stages
GrownForCall == IF heap.arenaFreeSize < WasmPageSize THEN BOOLEAN ELSE {FALSE}

\* Execute (part_002) with k return slots, up to its return: callFunction
\* stages the parameters and the slots and calls the entry function, which
\* fills the slots.  The Environment holds this call's memory
Returned(parameters, k, withSize, answers, r, g) ==
    /\ memory' = g.mem
    /\ heap' = r.heap
    /\ writes' = r.blocks
    /\ last' = [op |-> "callFunction", kind |-> IF r.kind = "ok" THEN g.kind ELSE r.kind,
                parameters |-> parameters, k |-> k, withSize |-> withSize,
                out |-> r.out, blocks |-> r.blocks, slots |-> r.ptrs,
                atCall |-> r.mem, answers |-> answers, envMemory |-> g.mem,
                rebound |-> FALSE, slot |-> 0, data |-> [kind |-> "none", val |-> <<>>]]
Entered(parameters, k, withSize, answers, r) ==
    Returned(parameters, k, withSize, answers, r, guestStores(r.mem, r.ptrs, answers))
CallWithReturns(parameters, k, withSize, grown, answers) ==
    /\ Running
    /\ Untouched
    /\ revision = "part002"
    /\ Entered(parameters, k, withSize, answers,
               callFunction(heap, memory, parameters, k, withSize, grown))
    /\ UNCHANGED <<revision, fresh>>
    /\ UNCHANGED execVars

\* a later Execute on the same Runtime: r.env.SetMemory(memory) binds the
\* Environment to the memory of the new instance
ExecuteAgain ==
    /\ last.op = "callFunction" /\ last.kind = "ok" /\ ~last.rebound
    /\ last' = [last EXCEPT !.envMemory = NewMemory(1, <<>>), !.rebound = TRUE]
    /\ UNCHANGED <<memory, heap, revision, fresh, writes>>
    /\ UNCHANGED execVars

\* returns[i].ReadData(env), after Execute returned
ReadSlot(i) ==
    /\ last.op = "callFunction" /\ last.kind = "ok"
    /\ i \in 1..last.k
    /\ last' = [last EXCEPT !.op = "ReadData", !.slot = i,
                            !.data = ReadData(last.envMemory, last.slots[i])]
    /\ UNCHANGED <<memory, heap, revision, fresh, writes>>
    /\ UNCHANGED execVars

Next ==
    \/ \E bytes \in BlocksToWrite : \E alloc \in AllocFor(bytes) : \E grown \in GrownFor(bytes) :
         ArenaWrite(bytes, alloc, grown)
    \/ \E offset \in Offsets : \E length \in Lengths : Segment(offset, length)
    \/ \E offset \in Offsets : ReadStringAt(offset)
    \/ \E offset \in Offsets : ReadBytesAt(offset)
    \/ /\ Untouched
       /\ \E name \in Imports : \E env \in {"Default", "Rust"} : \E args \in ImportArgs(name) :
            \E tracing \in BOOLEAN : CallImport(name, env, args, tracing)
    \/ \E offset \in Offsets : ReadI32sAt(offset)
    \/ /\ Untouched
       /\ \E parameters \in SlotParameters : \E k \in 0..MaxSlots : \E withSize \in BOOLEAN :
            \E grown \in GrownForCall :
              \E answers \in [1..k -> GuestAnswers] :
                CallWithReturns(parameters, k, withSize, grown, answers)
    \/ ExecuteAgain
    \/ \E i \in 1..MaxSlots : ReadSlot(i)
    \/ \E returns \in ReturnKinds : \E offset \in Offsets : DecodeResult(returns, offset)
    \/ \E S \in Strings : \E alloc \in AllocFor(AscStringBytes(S)) : StageString(S, alloc)
    \/ \E parameter \in Natives :
         \E alloc \in AllocFor(IF IsAscPtr(toWASMValue(parameter))
                               THEN ToPtrBytes(toWASMValue(parameter)) ELSE <<>>) :
           Convert(parameter, alloc)
    \/ /\ Untouched
       /\ \E parameters \in ParameterLists : \E withSize \in BOOLEAN :
            \E alloc \in AllocForAll(parameters) : \E grown \in GrownForAll(parameters) :
              ConvertAll(parameters, withSize, alloc, grown)

Spec == Init /\ [][Next]_vars

----------------------------------------------------------------------------
(* Properties of the codec, the memory view and the arena, under Spec.     *)

\* a string whose characters all lie in the Basic Multilingual Plane
IsBMP(S) == \A i \in 1..Len(S) : S[i] < 65536 /\ ~(S[i] >= 55296 /\ S[i] <= 57343)

\* C1: for every host string S of BMP characters, staging S with
\* AscString.ToPtr and decoding the returned pointer with ReadString gives
\* back exactly S
C1_RoundTrip ==
    (last.op = "StageString" /\ last.kind = "ok" /\ last.copied = last.size
        /\ IsBMP(last.S))
      => (last.decoded.kind = "ok" /\ last.decoded.val = last.S)

\* C2: segment(offset, length) with offset < 0, or with offset + length (the
\* sum of the two numbers) beyond the buffer, returns a bounds error and
\* leaves the memory alone
C2_SegmentBoundsError ==
    (last.op = "segment"
        /\ (last.offset < 0 \/ SumExceeds(last.offset, last.length, last.before.size)))
      => (last.kind = "err" /\ last.val = <<>> /\ memory = last.before)

\* whether segment returned exactly buffer[offset .. offset + length)
ReturnsTheBytes ==
    /\ last.kind = "ok"
    /\ Len(last.val) = last.length
    /\ \A i \in 1..Len(last.val) : last.val[i] = ByteAt(last.before, last.offset + i - 1)

\* none of the failure conditions of segment holds
NoFailureCondition ==
    /\ last.offset >= 0
    /\ last.offset < last.before.size
    /\ ~SumExceeds(last.offset, last.length, last.before.size)

\* C3: whenever none of the failure conditions (offset < 0, offset >= buffer
\* length, offset + length > buffer length) holds, segment succeeds and
\* returns exactly the length bytes buffer[offset .. offset + length)
C3_SegmentSucceeds ==
    (last.op = "segment" /\ NoFailureCondition) => ReturnsTheBytes

RECURSIVE TotalSize(_)
TotalSize(ws) == IF ws = <<>> THEN 0 ELSE Len(Head(ws).bytes) + TotalSize(Tail(ws))

\* the regions [a, a + n) and [b, b + k) share no address
Disjoint(a, n, b, k) == n = 0 \/ k = 0 \/ a + n <= b \/ b + k <= a

\* the bytes bs are in memory m at address a
Holds(m, a, bs) == \A k \in 1..Len(bs) : ByteAt(m, a + k - 1) = bs[k]

\* C4: while the writes of a call total no more than the initial capacity of
\* the arena, their regions are pairwise disjoint and each region still holds
\* the bytes written to it
C4_WritesDisjointAndIntact ==
    TotalSize(writes) <= fresh.arenaFreeSize
      => /\ \A i, j \in 1..Len(writes) :
              i < j => Disjoint(writes[i].ptr, Len(writes[i].bytes),
                                writes[j].ptr, Len(writes[j].bytes))
         /\ \A i \in 1..Len(writes) : Holds(memory, writes[i].ptr, writes[i].bytes)

\* two non-empty writes within the initial capacity have been made
C4_Witness ==
    /\ Len(writes) = 2
    /\ Len(writes[1].bytes) > 0 /\ Len(writes[2].bytes) > 0
    /\ TotalSize(writes) <= fresh.arenaFreeSize

\* the addresses at which two memories differ
Changed(m1, m2) == {a \in (DOMAIN m1.data) \cup (DOMAIN m2.data) : ByteAt(m1, a) # ByteAt(m2, a)}

C10_ValueMapping ==
    (last.op = "Convert" /\ last.kind = "ok") =>
      LET in == last.parameter
          out == last.wasmValue
      IN  /\ in.type = "bool" =>
                out = [type |-> "int32", bits |-> PutUint32(IF in.bits = <<1>> THEN 1 ELSE 0)]
          /\ in.type \in {"int8", "uint8", "int16", "uint16", "int32", "uint32"} =>
                out.type = "int32"
          /\ in.type \in {"int64", "uint64"} =>
                out = [type |-> "int64", bits |-> in.bits]
          /\ in.type \in {"float32", "float64"} => out = in
          /\ in.type \in {"bytes", "string"} => last.staged

----------------------------------------------------------------------------
(* Runtime.Execute.  NumCalls calls are made, each from its own goroutine, *)
(* on one Runtime and Environment (shared) or on a Runtime and Environment *)
(* each; the statements of concurrent calls interleave.  A panic is not    *)
(* recovered (the recover of callFunction is commented out): it ends the   *)
(* process.                                                                *)

NumCalls == 2      \* Execute calls made
Calls == 1..NumCalls

\* the Environment of the Runtime a call is made on
envOf(c) == IF shared THEN 1 ELSE c

\* a second guest memory image: "Yo" at 16, "B" at 64
ImageB ==
    LET m0 == NewMemory(1, <<>>)
        m1 == Store(m0, 16, PutUint32(2) \o <<89, 0, 111, 0>>)
        m2 == Store(m1, 64, PutUint32(1) \o <<66, 0>>)
    IN  m2.data

Imported(name, args) == [name |-> name, args |-> args]

\* a well-formed module: one page of memory, an entry function "main" that
\* calls the imports of its script in order and returns out, and no start
\* function (start: the imports its start function calls)
Module(image, script, out) ==
    [exists |-> TRUE, valid |-> TRUE, links |-> TRUE, hasMemory |-> TRUE, pages |-> 1,
     image |-> image, exports |-> {"main"}, script |-> script, out |-> out,
     start |-> <<>>]

\* the wasm files a call may name
File(name) ==
    CASE name = "missing.wasm" -> [Module(<<>>, <<>>, Nil) EXCEPT !.exists = FALSE]
      [] name = "garbage.wasm" -> [Module(<<>>, <<>>, Nil) EXCEPT !.valid = FALSE]
      [] name = "unlinked.wasm" -> [Module(<<>>, <<>>, Nil) EXCEPT !.links = FALSE]
      [] name = "nomemory.wasm" -> [Module(<<>>, <<>>, Nil) EXCEPT !.hasMemory = FALSE]
      [] name = "empty.wasm" -> [Module(<<>>, <<>>, Nil) EXCEPT !.pages = 0]
      [] name = "log.wasm" ->
           Module(TestImage, <<Imported("index.log.log", <<1, 16>>),
                               Imported("index.log.log", <<2, 64>>)>>, I32(16))
      [] name = "abort.wasm" ->
           Module(ImageB, <<Imported("env.abort", <<16, 64, 3, 7>>),
                            Imported("index.log.log", <<1, 16>>)>>, Nil)
      [] name = "badptr.wasm" ->
           Module(TestImage, <<Imported("index.log.log", <<1, WasmPageSize>>)>>, Nil)
      [] name = "negcount.wasm" ->
           Module(TestImage, <<Imported("index.log.log", <<1, 32>>)>>, Nil)
      [] name = "hello.wasm" ->
           Module(ImageB, <<Imported("env.println", <<16, 4>>)>>, I32(16))
      [] name = "print.wasm" ->
           Module(TestImage, <<Imported("env.println", <<32, 4>>)>>, Nil)
      [] name = "badresult.wasm" -> Module(TestImage, <<>>, I32(32))
      [] name = "answer.wasm" ->
           Module(ImageB, <<>>, [type |-> "int64", bits |-> <<42, 0, 0, 0, 0, 0, 0, 0>>])
      [] name = "float.wasm" ->
           Module(ImageB, <<>>, [type |-> "float64", bits |-> <<0, 0, 0, 0, 0, 0, 69, 64>>])
      [] name = "start.wasm" ->
           [Module(ImageB, <<>>, Nil) EXCEPT
               !.start = <<Imported("index.log.log", <<1, 16>>)>>]

Request(wasmFile, functionName, returns, parameters, withSize, allocator) ==
    [wasmFile |-> wasmFile, functionName |-> functionName, returns |-> returns,
     parameters |-> parameters, pointerWithSize |-> withSize, allocator |-> allocator]

Hi == [type |-> "string", bits |-> <<72, 105>>]

\* the Execute calls made (with the options of the Runtime they are made on)
Requests ==
    {Request("missing.wasm", "main", "nil", <<>>, FALSE, FALSE),
     Request("garbage.wasm", "main", "nil", <<>>, FALSE, FALSE),
     Request("unlinked.wasm", "main", "nil", <<>>, FALSE, FALSE),
     Request("nomemory.wasm", "main", "nil", <<Hi>>, FALSE, FALSE),
     Request("log.wasm", "nope", "nil", <<Hi>>, FALSE, FALSE),
     Request("log.wasm", "main", "string", <<>>, FALSE, FALSE),
     Request("log.wasm", "main", "nil", <<>>, FALSE, FALSE),
     Request("log.wasm", "main", "nil", <<[type |-> "struct", bits |-> <<>>]>>, FALSE, FALSE),
     Request("abort.wasm", "main", "nil",
             <<[type |-> "int32", bits |-> <<5, 0, 0, 0>>]>>, FALSE, FALSE),
     Request("badptr.wasm", "main", "int", <<>>, FALSE, FALSE),
     Request("negcount.wasm", "main", "nil", <<>>, FALSE, FALSE),
     Request("empty.wasm", "main", "nil", <<Hi>>, FALSE, FALSE),
     Request("empty.wasm", "main", "nil", <<Hi>>, FALSE, TRUE),
     Request("hello.wasm", "main", "string", <<Hi>>, TRUE, FALSE),
     Request("hello.wasm", "main", "bool", <<>>, FALSE, FALSE),
     Request("print.wasm", "main", "nil", <<>>, FALSE, FALSE),
     Request("badresult.wasm", "main", "string", <<>>, FALSE, FALSE),
     Request("answer.wasm", "main", "int64", <<Hi>>, FALSE, TRUE),
     Request("float.wasm", "main", "float64", <<>>, FALSE, FALSE),
     Request("start.wasm", "main", "nil", <<>>, FALSE, FALSE)}

NoMemory == [size |-> 0, data |-> <<>>]
NoResult == [kind |-> "none", error |-> "", value |-> Nil]

\* a call not made yet
Idle ==
    [pc |-> "idle", request |-> Request("", "", "nil", <<>>, FALSE, FALSE),
     trace |-> <<>>, failed |-> "none", mem |-> NoMemory,
     heap |-> newAscHeap(NoMemory, FALSE), writes |-> 0, allocFailed |-> FALSE,
     wasmParameters |-> <<>>,
     script |-> <<>>, invoked |-> 0, imports |-> <<>>, reads |-> {},
     out |-> Nil, result |-> NoResult]

InitExec ==
    /\ shared \in BOOLEAN
    /\ envKind \in {"Default", "Rust"}
    /\ envMemory = [e \in Calls |-> 0]
    /\ recorder = [e \in Calls |-> <<>>]
    /\ call = [c \in Calls |-> Idle]
    /\ memory = NoMemory /\ heap = newAscHeap(NoMemory, FALSE) /\ fresh = heap
    /\ revision = "runtime" /\ writes = <<>> /\ last = [op |-> "none", kind |-> "ok"]

\* no call has panicked
Alive == \A c \in Calls : call[c].result.kind # "panic"

At(c, pc) == Alive /\ call[c].pc = pc

\* the step of the call is done and the call goes on to next
Step(c, step, next) == [call[c] EXCEPT !.pc = next, !.trace = Append(@, step)]

\* the step of the call fails: Execute returns the error (kind "err"), or
\* panics (kind "panic")
Fail(c, step, kind, error) ==
    [call[c] EXCEPT !.pc = "done", !.trace = Append(@, step), !.failed = step,
                    !.result = [kind |-> kind, error |-> error, value |-> Nil]]

Only(c, new) == call' = [call EXCEPT ![c] = new]

\* Execute(wasmFile, functionName, returns, parameters...) is called.
\* runtime.go's toGoValue decodes a string with the one-argument ReadString
\* of the DefaultEnvironment
Start(c, request) ==
    /\ At(c, "idle")
    /\ request.returns = "string" => envKind = "Default"
    /\ shared => \A d \in Calls : call[d].pc # "idle" =>
                    /\ call[d].request.allocator = request.allocator
                    /\ call[d].request.pointerWithSize = request.pointerWithSize
    /\ Only(c, [call[c] EXCEPT !.pc = "load", !.request = request])
    /\ UNCHANGED <<shared, envKind, envMemory, recorder, codecVars>>

\* ioutil.ReadFile(wasmFile)
ReadFile(c) ==
    /\ At(c, "load")
    /\ Only(c, IF File(call[c].request.wasmFile).exists THEN Step(c, "load", "compile")
               ELSE Fail(c, "load", "err", "unable to load wasm file"))
    /\ UNCHANGED <<shared, envKind, envMemory, recorder, codecVars>>

\* wasmer.NewModule(store, wasmBytes)
NewModule(c) ==
    /\ At(c, "compile")
    /\ Only(c, IF File(call[c].request.wasmFile).valid
               THEN Step(c, "compile", "instantiate")
               ELSE Fail(c, "compile", "err", "unable to compile wasm file"))
    /\ UNCHANGED <<shared, envKind, envMemory, recorder, codecVars>>

\* a recorder that puts the new call first
Record_AtFront(calls, new) == <<new>> \o calls

\* callRecorder.Record: r.calls = append(r.calls, call{module, function,
\* params, returns})
Record(calls, new) == Append(calls, new)

\* DefaultEnvironment.RecordCall for each of the calls an import records
RECURSIVE RecordCall(_, _)
RecordCall(calls, records) ==
    IF records = <<>> THEN calls
    ELSE RecordCall(Record(calls, Head(records)), Tail(records))

\* the import a start function calls runs on the Environment before
\* Execute has bound the new memory: it reads the memory the Environment
\* holds, and panics on a nil memory when none was ever bound
startImport(import, bound) ==
    IF bound = 0 /\ import.name \in NewFormat THEN ImportFailed("panic", "nil memory")
    ELSE functions(import.name, envKind, IF bound = 0 THEN NoMemory ELSE call[bound].mem,
                   import.args)

\* the instance is there, with its memory mem, once its start function has
\* run: an import that fails traps it and NewInstance returns the error
Instantiated(c, e, bound, import, r, mem) ==
    LET entry == [name |-> import.name, args |-> import.args, own |-> mem,
                  through |-> bound, result |-> r]
    IN  /\ Only(c, IF r.kind = "ok"
                   THEN [Step(c, "instantiate", "getMemory") EXCEPT
                            !.mem = mem, !.imports = Append(@, entry),
                            !.reads = IF r.read THEN @ \cup {bound} ELSE @]
                   ELSE [Fail(c, "instantiate",
                              IF r.kind = "panic" THEN "panic" ELSE "err",
                              "unable to get wasm module instance") EXCEPT
                            !.mem = mem, !.imports = Append(@, entry),
                            !.reads = IF r.read THEN @ \cup {bound} ELSE @])
        /\ recorder' = [recorder EXCEPT ![e] = RecordCall(@, r.records)]

\* newImports(r.env, store), wasmer.NewInstance(module, importObject), which
\* runs the start function of the module
Instance(c, file) ==
    IF file.links /\ file.start # <<>>
    THEN Instantiated(c, envOf(c), envMemory[envOf(c)], Head(file.start),
                      startImport(Head(file.start), envMemory[envOf(c)]),
                      NewMemory(file.pages, file.image))
    ELSE /\ Only(c, IF file.links
                    THEN [Step(c, "instantiate", "getMemory") EXCEPT
                             !.mem = IF file.hasMemory THEN NewMemory(file.pages, file.image)
                                     ELSE NoMemory]
                    ELSE Fail(c, "instantiate", "err", "unable to get wasm module instance"))
         /\ UNCHANGED recorder
NewInstance(c) ==
    /\ At(c, "instantiate")
    /\ Instance(c, File(call[c].request.wasmFile))
    /\ UNCHANGED <<shared, envKind, envMemory, codecVars>>

\* instance.Exports.GetMemory("memory")
GetMemory(c) ==
    /\ At(c, "getMemory")
    /\ Only(c, IF File(call[c].request.wasmFile).hasMemory
               THEN Step(c, "getMemory", "setMemory")
               ELSE Fail(c, "getMemory", "err", "unable to get the wasm module memory"))
    /\ UNCHANGED <<shared, envKind, envMemory, recorder, codecVars>>

\* r.env.SetMemory(memory)
SetMemory(c) ==
    /\ At(c, "setMemory")
    /\ envMemory' = [envMemory EXCEPT ![envOf(c)] = c]
    /\ Only(c, Step(c, "setMemory", "getFunction"))
    /\ UNCHANGED <<shared, envKind, recorder, codecVars>>

\* instance.Exports.GetRawFunction(functionName), then the heap is built
GetRawFunction(c) ==
    /\ At(c, "getFunction")
    /\ Only(c, IF call[c].request.functionName \in File(call[c].request.wasmFile).exports
               THEN [Step(c, "getFunction", "convert") EXCEPT
                        !.heap = newAscHeap(call[c].mem, call[c].request.allocator)]
               ELSE Fail(c, "getFunction", "err", "unable to get wasm module function"))
    /\ UNCHANGED <<shared, envKind, envMemory, recorder, codecVars>>

\* the allocator is consulted only by a call that grows its arena
AllocOf(c) ==
    IF call[c].heap.allocator /\ Grows(call[c].heap.arenaFreeSize, call[c].request.parameters)
    THEN AllocOutcomes(call[c].mem) ELSE {[err |-> TRUE, ptr |-> 0, pages |-> 0]}

\* r.callFunction: toWASMParameters(heap, parameters, r.pointerWithSize).
\* allocFailed tells that a Write called the allocator and got an error
ConvertParameters(c, alloc) ==
    /\ At(c, "convert")
    /\ LET r == toWASMParameters(call[c].heap, call[c].mem, call[c].request.parameters,
                                 call[c].request.pointerWithSize, alloc)
           allocFailed ==
               /\ call[c].heap.allocator
               /\ Grows(call[c].heap.arenaFreeSize, call[c].request.parameters)
               /\ alloc.err
       IN  Only(c, IF r.kind = "panic"
                   THEN [Fail(c, "convert", "panic", "panic") EXCEPT
                            !.heap = r.heap, !.mem = r.mem, !.writes = r.writes,
                            !.allocFailed = allocFailed]
                   ELSE [Step(c, "convert", "invoke") EXCEPT
                            !.heap = r.heap, !.mem = r.mem, !.writes = r.writes,
                            !.wasmParameters = r.out])
    /\ UNCHANGED <<shared, envKind, envMemory, recorder, codecVars>>

\* entrypoint.Call(wasmParameters...): the guest's entry function starts
Invoke(c) ==
    /\ At(c, "invoke")
    /\ Only(c, [Step(c, "invoke", "guest") EXCEPT
                   !.invoked = @ + 1, !.script = File(call[c].request.wasmFile).script])
    /\ UNCHANGED <<shared, envKind, envMemory, recorder, codecVars>>

\* an import whose error does not stop the guest
AfterImport_GoesOn(c, e, bound, import, r) ==
    /\ Only(c, [call[c] EXCEPT
                   !.imports = Append(@, [name |-> import.name, args |-> import.args,
                                          own |-> call[c].mem, through |-> bound,
                                          result |-> r]),
                   !.reads = IF r.read THEN @ \cup {bound} ELSE @,
                   !.script = Tail(@)])
    /\ recorder' = [recorder EXCEPT ![e] = RecordCall(@, r.records)]

\* the rest of the call of an import that returned r: the call is noted, its
\* records reach the recorder, and an error ends the guest call
AfterImport(c, e, bound, import, r) ==
    LET entry == [name |-> import.name, args |-> import.args, own |-> call[c].mem,
                  through |-> bound, result |-> r]
        after == [call[c] EXCEPT !.imports = Append(@, entry),
                                 !.reads = IF r.read THEN @ \cup {bound} ELSE @,
                                 !.script = Tail(@)]
    IN  /\ Only(c, IF r.kind = "ok" THEN after
                   ELSE [after EXCEPT
                            !.pc = "done", !.failed = "invoke",
                            !.result = [kind |-> IF r.kind = "panic" THEN "panic" ELSE "err",
                                        error |-> r.error, value |-> Nil]])
        /\ recorder' = [recorder EXCEPT ![e] = RecordCall(@, r.records)]

\* the guest calls the next import of its script.  The import runs on the
\* Environment it was bound to by newImports, and reads the memory that
\* Environment holds now.  An error or an abort traps the guest and Call
\* returns it; Execute wraps and returns it
GuestImport(c) ==
    /\ At(c, "guest")
    /\ call[c].script # <<>>
    /\ AfterImport(c, envOf(c), envMemory[envOf(c)], Head(call[c].script),
                   functions(Head(call[c].script).name, envKind,
                             call[envMemory[envOf(c)]].mem, Head(call[c].script).args))
    /\ UNCHANGED <<shared, envKind, envMemory, codecVars>>

\* the entry function returns
GuestReturn(c) ==
    /\ At(c, "guest")
    /\ call[c].script = <<>>
    /\ Only(c, [call[c] EXCEPT !.pc = "decode", !.out = File(call[c].request.wasmFile).out])
    /\ UNCHANGED <<shared, envKind, envMemory, recorder, codecVars>>

\* toGoValue(result, returns, r.env)
Decode(c) ==
    /\ At(c, "decode")
    /\ LET bound == envMemory[envOf(c)]
           r == toGoValue(call[c].out, call[c].request.returns, call[bound].mem)
           reading == call[c].request.returns = "string" /\ call[c].out.type = "int32"
       IN  Only(c, [call[c] EXCEPT
                       !.pc = "done", !.trace = Append(@, "decode"),
                       !.failed = IF r.kind = "ok" THEN "none" ELSE "decode",
                       !.reads = IF reading THEN @ \cup {bound} ELSE @,
                       !.result = r])
    /\ UNCHANGED <<shared, envKind, envMemory, recorder, codecVars>>

NextExec ==
    \/ \E c \in Calls : \E request \in Requests : Start(c, request)
    \/ \E c \in Calls : ReadFile(c)
    \/ \E c \in Calls : NewModule(c)
    \/ \E c \in Calls : NewInstance(c)
    \/ \E c \in Calls : GetMemory(c)
    \/ \E c \in Calls : SetMemory(c)
    \/ \E c \in Calls : GetRawFunction(c)
    \/ \E c \in Calls : \E alloc \in AllocOf(c) : ConvertParameters(c, alloc)
    \/ \E c \in Calls : Invoke(c)
    \/ \E c \in Calls : GuestImport(c)
    \/ \E c \in Calls : GuestReturn(c)
    \/ \E c \in Calls : Decode(c)

SpecExec == InitExec /\ [][NextExec]_vars

----------------------------------------------------------------------------
(* Properties of Execute and of the imports, under SpecExec.               *)

\* the steps of Execute, in order
Order ==
    <<"load", "compile", "instantiate", "getMemory", "setMemory", "getFunction",
      "convert", "invoke", "decode">>

IsPrefix(s, t) == Len(s) <= Len(t) /\ \A i \in 1..Len(s) : s[i] = t[i]

\* the string in guest memory m at ptr (4-byte count, UTF-16 code units)
StringAt(m, ptr) == ReadString(m, ptr)

\* C6: every call of env.abort(msgPtr, filePtr, line, column) returns an
\* abort error whose message and filename are the strings in the guest's
\* memory at msgPtr and filePtr at the time of the call, and whose line and
\* column are the arguments
C6_AbortError ==
    \A c \in Calls : \A i \in 1..Len(call[c].imports) :
      LET import == call[c].imports[i]
          message == StringAt(import.own, import.args[1])
          filename == StringAt(import.own, import.args[2])
      IN  (import.name = "env.abort" /\ message.kind = "ok" /\ filename.kind = "ok")
            => /\ import.result.kind = "abort"
               /\ import.result.abort =
                    [message |-> message.val, filename |-> filename.val,
                     lineNumber |-> import.args[3], columnNumber |-> import.args[4]]

\* the CallRecord of a call of index.log.log
LogRecord(import) ==
    [module |-> "index", function |-> "log.log",
     params |-> <<import.args[1], StringAt(import.own, import.args[2]).val>>,
     returns |-> "nil"]

\* C7: when the guest of an Execute call has called index.log.log n times,
\* the recorder holds exactly n CallRecords, each {"index", "log.log",
\* [level, the message at msgPtr], nil}
C7_LogRecords ==
    \A c \in Calls :
      (~shared /\ call[c].pc = "done" /\ call[c].result.kind = "ok"
          /\ \A i \in 1..Len(call[c].imports) :
                /\ call[c].imports[i].name = "index.log.log"
                /\ StringAt(call[c].imports[i].own, call[c].imports[i].args[2]).kind = "ok")
        => recorder[envOf(c)] =
             [i \in 1..Len(call[c].imports) |-> LogRecord(call[c].imports[i])]

\* C8: the steps of Execute are performed in order; a step that fails is
\* the last one and Execute returns an error; the guest is invoked at most
\* once; a missing memory export or entry function leaves the Arena
\* unwritten and the guest not invoked
C8_StepOrder ==
    \A c \in Calls :
      /\ IsPrefix(call[c].trace, Order)
      /\ call[c].invoked <= 1
      /\ call[c].failed # "none" =>
           /\ call[c].pc = "done"
           /\ call[c].trace[Len(call[c].trace)] = call[c].failed
           /\ call[c].result.kind = "err"
      /\ call[c].failed \in {"getMemory", "getFunction"} =>
           call[c].writes = 0 /\ call[c].invoked = 0

\* C9: the imports and the result decoding of a call read only the memory
\* of the call's own instantiation
C9_NoSharedState ==
    \A c \in Calls : call[c].reads \subseteq {c}

\* the native kinds with a guest representation
SupportedKinds ==
    {"bool", "int8", "uint8", "int16", "uint16", "int32", "uint32", "int64", "uint64",
     "int", "uint", "float32", "float64", "bytes", "string"}

HasUnsupported(parameters) ==
    \E i \in 1..Len(parameters) : parameters[i].type \notin SupportedKinds

\* the call has performed the step
Did(c, step) == \E i \in 1..Len(call[c].trace) : call[c].trace[i] = step

\* C11: when a parameter of Execute has a native kind outside the supported
\* set, Execute returns an error to the caller and the entry function is not
\* invoked
C11_UnsupportedType ==
    \A c \in Calls :
      (HasUnsupported(call[c].request.parameters) /\ Did(c, "convert"))
        => (call[c].result.kind = "err" /\ call[c].invoked = 0)


\* the words the claim describes for a parameter list: a reference gives the
\* pointer of its block and, with the flag, the size of the block; a scalar
\* gives its one value
RECURSIVE ExpectedWords(_, _, _)
ExpectedWords(parameters, blocks, withSize) ==
    IF parameters = <<>> THEN <<>>
    ELSE IF Head(parameters).type \in {"string", "bytes"}
    THEN IF blocks = <<>> THEN <<Nil>>
         ELSE (IF withSize
               THEN <<I32(Head(blocks).ptr), I32(Len(Head(blocks).bytes))>>
               ELSE <<I32(Head(blocks).ptr)>>)
              \o ExpectedWords(Tail(parameters), Tail(blocks), withSize)
    ELSE <<toWASMValue(Head(parameters))>> \o ExpectedWords(Tail(parameters), blocks, withSize)

ScalarKinds == {"int32", "int64", "float32", "float64"}

\* C13: an Execute call whose guest call succeeded and whose result kind is
\* a scalar (32- or 64-bit integer or float) or none returns the value of
\* the engine call, unchanged
C13_ScalarPassThrough ==
    \A c \in Calls :
      (Did(c, "decode") /\ call[c].request.returns \in ScalarKinds \cup {"nil"})
        => (call[c].result.kind = "ok" /\ call[c].result.value = call[c].out)

\* C14: when the guest returned a pointer to a string or to a byte array in
\* its memory, the decoding of the result gives the host string or the bytes
\* stored at that pointer, not the pointer
C14_DecodedResult ==
    last.op = "toGoValue" =>
      LET ptr == Uint32(last.wasmValue.bits)
          str == ReadString(memory, ptr)
          bytes == ReadBytes(memory, ptr)
      IN  /\ (last.returns = "string" /\ str.kind = "ok")
               => (last.kind = "ok" /\ last.value = [type |-> "string", bits |-> str.val])
          /\ (last.returns = "bytes" /\ bytes.kind = "ok")
               => (last.kind = "ok" /\ last.value = [type |-> "bytes", bits |-> bytes.val])

\* C15: an Execute call that fails, at whichever step, ends by returning a
\* nil result and a non-nil error
C15_FailureReturnsError ==
    \A c \in Calls :
      call[c].failed # "none"
        => /\ call[c].pc = "done"
           /\ call[c].result.kind = "err"
           /\ call[c].result.value = Nil
           /\ call[c].result.error # ""

\* C16: when an Arena write of the parameter staging needs growth and the
\* allocator call fails, Execute returns an allocation error to its caller
\* and the entry function is not invoked
C16_AllocationError ==
    \A c \in Calls :
      call[c].allocFailed => (call[c].result.kind = "err" /\ call[c].invoked = 0)

\* C17: when a write exceeds the free capacity, no allocator is configured
\* and the memory can grow, the memory grows by whole pages that cover the
\* request, and the pointer returned is the end of the memory before the
\* growth, the new base of the arena
C17_GrowsAtEndOfMemory ==
    (/\ last.op = "Write"
     /\ last.grew
     /\ ~fresh.allocator
     /\ ~(revision = "part002" /\ ~last.grown))
      => /\ last.kind = "ok"
         /\ memory.size > last.before.size
         /\ (memory.size - last.before.size) % WasmPageSize = 0
         /\ memory.size - last.before.size >= Len(last.bytes)
         /\ last.ptr = last.before.size

\* C18: the block the string encoder writes for S has 4 + 2 * n bytes, n the
\* number of UTF-16 code units of S: the count n as a little-endian u32,
\* then each code unit as two little-endian bytes; the size returned is the
\* size of the block
C18_StringBlock ==
    (last.op = "StageString" /\ last.kind = "ok" /\ last.copied = last.size)
      => LET units == utf16Encode(last.S)
             n == Len(units)
             at(i) == ByteAt(memory, last.ptr + i)
         IN  /\ last.size = 4 + 2 * n
             /\ <<at(0), at(1), at(2), at(3)>> = PutUint32(n)
             /\ \A k \in 1..n : /\ at(4 + 2 * (k - 1)) = units[k] % 256
                                /\ at(5 + 2 * (k - 1)) = units[k] \div 256

\* the header read at last.offset is there and is malformed: its count or
\* size is negative, or reaches past the end of the memory
MalformedHeader ==
    LET offset == last.offset IN
    CASE last.op = "ReadString" ->
           LET count == readI32(memory, offset) IN
           /\ count.kind = "ok"
           /\ \/ count.val < 0
              \/ count.val > (memory.size - (offset + 4)) \div 2
      [] last.op = "ReadBytes" ->
           LET arrayOffset == readU32(memory, offset)
               dataStart == readU32(memory, Add32(offset, 4))
               dataSize == readU32(memory, Add32(offset, 8))
           IN  /\ arrayOffset.kind = "ok" /\ dataStart.kind = "ok" /\ dataSize.kind = "ok"
               /\ LET start == Add32(arrayOffset.val, dataStart.val) IN
                  \/ dataSize.val < 0
                  \/ start >= 0 /\ start <= memory.size /\ dataSize.val > memory.size - start
      [] last.op = "ReadI32s" ->
           LET arrayOffset == readI32(memory, offset)
               length == readI32(memory, Add32(offset, 4))
           IN  /\ arrayOffset.kind = "ok" /\ length.kind = "ok"
               /\ LET indicesOffset == Add32(arrayOffset.val, 8) IN
                  \/ length.val < 0
                  \/ /\ indicesOffset >= 0 /\ indicesOffset <= memory.size
                     /\ length.val > (memory.size - indicesOffset) \div 4
      [] OTHER -> FALSE

\* C19: decoding a string or an array whose header is malformed returns an
\* error value, whatever the memory and the offset
C19_MalformedHeaderError ==
    (last.op \in {"ReadString", "ReadBytes", "ReadI32s"} /\ MalformedHeader)
      => last.kind = "err"

\* C20: env.println(ptr, len), called on the memory of its own call,
\* succeeds whenever the segment of len bytes at ptr lies inside the memory
C20_Println ==
    \A c \in Calls : \A i \in 1..Len(call[c].imports) :
      LET import == call[c].imports[i] IN
      (/\ ~shared
       /\ import.name = "env.println"
       /\ segment(import.own, import.args[1], import.args[2]).kind = "ok")
        => import.result.kind = "ok"


-----------------------------------------------------------------------------
\* Properties of the host imports, checked under Spec

\* the imports registered with a placeholder body
Stubs ==
    {"index.typeConversion.bytesToHex", "index.bigDecimal.fromString",
     "index.typeConversion.stringToH160", "index.store.get", "index.store.set",
     "index.ethereum.call", "index.typeConversion.bytesToString",
     "index.dataSource.create"}
\* the placeholder each of them returns: one zero i32, or nothing for the
\* two declared without a result
Placeholder(name) ==
    IF name \in {"index.store.set", "index.dataSource.create"} THEN <<>> ELSE <<0>>

\* C21 as stated: every stub import returns its placeholder for every
\* argument tuple and memory content, without reading guest memory and
\* without failing
C21_StubsNeverReadNorFail ==
    (last.op = "import" /\ last.name \in Stubs) =>
        /\ last.result.kind = "ok"
        /\ last.result.values = Placeholder(last.name)
        /\ ~last.result.read

\* C21: the seven stubs registered without an Environment return their
\* placeholder for every argument tuple and memory content, without reading
\* guest memory and without failing; index.typeConversion.bytesToHex decodes
\* the byte array its argument points to, returns its placeholder exactly
\* when that decoding succeeds, and fails as the decoding fails otherwise
C21_StubResults ==
    (last.op = "import" /\ last.name \in Stubs) =>
        IF last.name = "index.typeConversion.bytesToHex"
        THEN /\ last.result.read
             /\ last.result.kind = ReadBytes(last.before, last.args[1]).kind
             /\ last.result.kind = "ok" => last.result.values = <<0>>
             /\ last.result.kind # "ok" => last.result.values = <<>>
        ELSE /\ last.result.kind = "ok"
             /\ last.result.values = Placeholder(last.name)
             /\ ~last.result.read
C21_Witness ==
    /\ last.op = "import"
    /\ last.name = "index.typeConversion.bytesToHex"
    /\ last.args = <<WasmPageSize>>
    /\ last.result.kind = "err"


\* C22: an import wrapped by the tracing decorator returns the values and
\* the error the unwrapped import returns for the same arguments on the same
\* memory, records the same calls, and leaves the guest memory as it was
C22_TracingIsTransparent ==
    (last.op = "import" /\ last.tracing /\ last.name \in NewFormat) =>
        /\ last.result = functions(last.name, last.env, last.before, last.args)
        /\ memory = last.before
C22_Witness ==
    /\ last.op = "import"
    /\ last.tracing
    /\ last.name = "env.abort"
    /\ last.result.kind = "abort"
    /\ Len(last.logged) = 2


\* the 8-byte region of return slot i of the last call
SlotIn(m, i) == last.slots[i] >= 0 /\ last.slots[i] + 8 <= m.size
\* the WebAssembly arguments the converted parameters alone give
ConvertedOnly ==
    toWASMParameters_part002(fresh, NewMemory(0, <<>>), last.parameters, last.withSize,
                             TRUE).out

\* C23, first half: the entry function is called with the converted
\* parameters followed by one pointer per return slot, in slot order; each
\* points to 8 zero bytes of its own inside the memory, apart from the
\* blocks of the parameters and from the other slots
C23_SlotsStaged ==
    (last.op \in {"callFunction", "ReadData"} /\ last.kind # "panic") =>
        /\ Len(last.slots) = last.k
        /\ Len(last.out) = Len(ConvertedOnly) + last.k
        /\ \A i \in 1..last.k :
             /\ last.out[Len(ConvertedOnly) + i] = I32(last.slots[i])
             /\ SlotIn(last.atCall, i)
             /\ Holds(last.atCall, last.slots[i], ReturnSlotBytes)
             /\ \A j \in 1..last.k : j # i => Disjoint(last.slots[i], 8, last.slots[j], 8)
             /\ \A b \in 1..Len(last.blocks) :
                  Disjoint(last.slots[i], 8, last.blocks[b].ptr, Len(last.blocks[b].bytes))

\* C23: in a call with k return slots the entry function gets the converted
\* parameters followed by k pointers in slot order, each to its own
\* zero-filled 8-byte region; after Execute returns, ReadData on a slot
\* returns the bytes memory[p..p+n) of that call's guest memory, p and n
\* being the words the guest stored at the slot and at slot + 4
C23_ReturnSlots ==
    /\ C23_SlotsStaged
    /\ (last.op = "ReadData" /\ last.kind = "ok") =>
         LET p == last.answers[last.slot][1]
             n == last.answers[last.slot][2]
         IN  (p >= 0 /\ n >= 0 /\ p + n <= memory.size) =>
               /\ last.data.kind = "ok"
               /\ Len(last.data.val) = n
               /\ Holds(memory, p, last.data.val)


\* the size of the memory when the call started
SizeAtStart == fresh.arenaFreeSize

\* C24: every Arena write and every Memory View read takes the guest's
\* buffer when it accesses it: a write that grew the memory copies into the
\* grown memory, up to its new end, and a read made after a growth reads
\* the grown memory
C24_LiveBuffer ==
    /\ (last.op = "Write" /\ last.kind = "ok" /\ last.grew) =>
         /\ last.copied = Min(Len(last.bytes), memory.size - last.ptr)
         /\ Holds(memory, last.ptr, SubSeq(last.bytes, 1, last.copied))
    /\ (last.op = "ReadData" /\ ~last.rebound /\ memory.size > SizeAtStart
          /\ last.answers[last.slot] = <<16, 8>>) =>
         /\ last.data.kind = "ok"
         /\ Len(last.data.val) = 8
         /\ Holds(memory, 16, last.data.val)
C24_Witness ==
    /\ last.op = "Write" /\ last.kind = "ok" /\ last.grew
    /\ memory.size > last.before.size
    /\ last.ptr + Len(last.bytes) > last.before.size
    /\ last.copied = Len(last.bytes) /\ last.copied > 0


\* the CallRecords the imports of a call made
RECURSIVE RecordsOf(_)
RecordsOf(imports) ==
    IF imports = <<>> THEN 0
    ELSE Len(Head(imports).result.records) + RecordsOf(Tail(imports))
\* the CallRecords made through Environment e by the calls 1..n
RECURSIVE RecordsThrough(_, _)
RecordsThrough(e, n) ==
    IF n = 0 THEN 0
    ELSE (IF envOf(n) = e THEN RecordsOf(call[n].imports) ELSE 0) + RecordsThrough(e, n - 1)

\* C25: once an import has returned an error (env.abort, or an argument that
\* cannot be decoded), the guest call is over: that import is the last the
\* call ran, its recorder holds no record but those of the imports that ran,
\* the entry function was invoked once, and Execute has returned an error
C25_ErrorEndsCall ==
    /\ \A c \in Calls : \A i \in 1..Len(call[c].imports) :
         call[c].imports[i].result.kind \in {"err", "abort"} =>
           /\ i = Len(call[c].imports)
           /\ call[c].pc = "done"
           /\ call[c].failed \in {"instantiate", "invoke"}
           /\ call[c].invoked = (IF call[c].failed = "invoke" THEN 1 ELSE 0)
           /\ call[c].result.kind = "err"
    /\ \A e \in Calls : Len(recorder[e]) = RecordsThrough(e, NumCalls)
C25_Witness ==
    \E c \in Calls :
      /\ call[c].pc = "done"
      /\ Len(call[c].imports) = 1
      /\ call[c].imports[1].result.kind = "abort"
      /\ call[c].script # <<>>
      /\ Head(call[c].script).name = "index.log.log"
      /\ call[c].result.kind = "err"


\* the three header words of the byte array read last, as signed 32-bit
\* values: a negative one stands for an unsigned word of 2^31 or more
HeaderAt(k) == readU32(memory, last.offset + k).val
\* the header lies inside the memory
HeaderInside == last.offset >= 0 /\ last.offset <= memory.size - 12
\* bufferOffset + dataStart or dataSize exceeds the non-negative 32-bit range
ExceedsRange ==
    \/ HeaderAt(0) < 0 \/ HeaderAt(4) < 0 \/ HeaderAt(8) < 0
    \/ SumExceeds(HeaderAt(0), HeaderAt(4), MaxInt32)

\* C26: ReadBytes(offset) reads bufferOffset, dataStart and dataSize at
\* offset, offset + 4 and offset + 8 and returns exactly the dataSize bytes
\* of the memory from bufferOffset + dataStart; it returns an error when a
\* header word or the data range lies outside the memory, and when
\* bufferOffset + dataStart or dataSize exceeds the non-negative 32-bit range
C26_ReadBytes ==
    last.op = "ReadBytes" =>
        IF ~HeaderInside \/ ExceedsRange THEN last.kind = "err"
        ELSE LET start == HeaderAt(0) + HeaderAt(4)
                 size == HeaderAt(8)
             IN  IF SumExceeds(start, size, memory.size) THEN last.kind = "err"
                 ELSE start < memory.size =>
                        /\ last.kind = "ok"
                        /\ Len(last.val) = size
                        /\ Holds(memory, start, last.val)


\* the header of the i32 array read last, and the address of its elements
ArrayOffset == readI32(memory, last.offset)
ArrayLength == readI32(memory, Add32(last.offset, 4))
ElementsAt == Add32(ArrayOffset.val, 8)
\* every element of the array lies inside the memory
ElementsInside ==
    \/ ArrayLength.val <= 0
    \/ /\ ElementsAt >= 0 /\ ElementsAt < memory.size
       /\ ArrayLength.val <= (memory.size - ElementsAt) \div 4

\* C27: ReadI32s(offset) reads arrayOffset and length, skips the 8-byte
\* field at arrayOffset and returns exactly length elements, element i
\* being the little-endian i32 at arrayOffset + 8 + 4i; when an element lies
\* outside the memory it returns an error and no partial array
C27_ReadI32s ==
    (last.op = "ReadI32s" /\ ArrayOffset.kind = "ok" /\ ArrayLength.kind = "ok") =>
        IF ElementsInside
        THEN /\ last.kind = "ok"
             /\ Len(last.val) = ArrayLength.val
             /\ \A i \in 1..Len(last.val) :
                  PutUint32(last.val[i]) =
                    [k \in 1..4 |-> ByteAt(memory, ElementsAt + 4 * (i - 1) + k - 1)]
        ELSE last.kind = "err" /\ last.val = <<>>


\* the calls on Environment e that ran an import in the step
RanImport(e) ==
    {c \in Calls : envOf(c) = e /\ Len(call'[c].imports) > Len(call[c].imports)}
\* the step leaves the log of e as it was, or adds at its end the records
\* of the import that ran
AppendsOnly(e) ==
    IF RanImport(e) = {} THEN recorder'[e] = recorder[e]
    ELSE \A c \in RanImport(e) :
           recorder'[e] =
             recorder[e] \o call'[c].imports[Len(call'[c].imports)].result.records

\* C28: the recorder's log is the sequence of the recorded calls in the
\* order of their invocation: every step leaves it unchanged or appends the
\* new records at its end; no record is changed, reordered or removed
C28_AppendOnly == [][\A e \in Calls : AppendsOnly(e)]_vars
C28_Witness ==
    \E e \in Calls :
      /\ Len(recorder[e]) = 3
      /\ recorder[e][1].params[1] = 1
      /\ recorder[e][2].params[1] = 1
      /\ recorder[e][3].params[1] = 2


\* C29: after any sequence of Arena writes, with or without growth, the
\* free-capacity counter is not negative, every returned pointer is
\* non-negative, and every written region lies inside the current memory,
\* so that every byte of every write was copied
C29_WritesInsideMemory ==
    /\ heap.arenaFreeSize >= 0
    /\ \A i \in 1..Len(writes) :
         /\ writes[i].ptr >= 0
         /\ writes[i].ptr + Len(writes[i].bytes) <= memory.size
    /\ (last.op = "Write" /\ last.kind = "ok") => last.copied = Len(last.bytes)


\* C30: every import called during an Execute call, the imports called by
\* the start function while the module is instantiated included, reads
\* through the memory of that call's own instantiation, never through an
\* unset memory nor through the memory another Execute call left bound
C30_ImportsReadOwnMemory ==
    \A c \in Calls : \A i \in 1..Len(call[c].imports) :
      call[c].imports[i].result.read => call[c].imports[i].through = c

====
